---- MODULE Spec2Model ----
(***************************************************************************)
(* Verification model of forky:                                            *)
(*   - the event graph store      (src/forky/src/db/graph.rs)              *)
(*   - the process pool           (src/forky/src/process/pool.rs)          *)
(*   - the process supervisor     (src/forky/src/process/spawn.rs)         *)
(* Each subsystem has its own specification over its own variables; the    *)
(* variables of the other subsystems stay at their initial values.         *)
(***************************************************************************)
EXTENDS Integers, Sequences, FiniteSets, TLC

(***************************************************************************)
(* Bounds of the model.                                                    *)
(***************************************************************************)
\* number of entity ids the store hands out in one behaviour
MaxEvents == 3
\* number of processes spawned through the pool in one behaviour
MaxProcs == 2
\* number of lines the children of one behaviour write, over all streams
MaxLines == 1
\* capacity of the pool-wide event channel (the 1000 of pool.rs:105, scaled down)
EventCapacity == 1
\* number of requests the server handles in one behaviour
MaxReqs == 3
\* number of items in the body of one ingest request
MaxBatch == 2
\* number of lines a stream carries when lines are followed one by one
MaxStreamLines == 2
\* number of content blocks in the message of one line
MaxBlocks == 2
\* number of lines parsed and stored in one behaviour
MaxParsedLines == 2
\* the length of a content summary (200 in extract_tool_results)
SummaryCap == 2
\* the characters of the content of a tool_result block
MaxContent == 4

None == "none"

(***************************************************************************)
(*                         THE EVENT GRAPH STORE                           *)
(***************************************************************************)
EDGE_CHILD_OF == "CHILD_OF"
EDGE_RESPONDS_TO == "RESPONDS_TO"
LABEL_EVENT == "Event"

\* unique ids and tool-invocation ids that events of the model carry
Uuids == {"u1"}
ToolIds == {"t1"}

\* The fields of ClaudeEvent that store_event reads for indexing and linking.
EventInputs ==
    [uuid : Uuids \cup {None},
     parent_tool_use_id : ToolIds \cup {None},
     tool_use_ids : {<<>>} \cup {<<t>> : t \in ToolIds},
     tool_results : {<<>>} \cup {<<t>> : t \in ToolIds},
     session_id : {None}]

VARIABLES
    entities,        \* committed entity table: entity id -> entity
    edges,           \* committed edge table, in creation order
    next_entity_id,  \* id_gen: the next entity id handed out
    uuid_index,      \* uuid -> entity id (0: no entry)
    tool_use_index,  \* tool_use_id -> entity id (0: no entry)
    edge_check       \* whether EdgeStore::create rejects a missing endpoint

storeVars == <<entities, edges, next_entity_id, uuid_index, tool_use_index, edge_check>>

\* Entity::new(id).with_label(LABEL_EVENT) and the properties store_event sets
EventEntity(id, event) ==
    [id |-> id, label |-> LABEL_EVENT,
     uuid |-> event.uuid,
     parent_tool_use_id |-> event.parent_tool_use_id,
     tool_use_ids |-> event.tool_use_ids,
     tool_results |-> event.tool_results,
     session_id |-> event.session_id]

Range(s) == {s[i] : i \in DOMAIN s}

\* an index that keeps the first entity entered under a uuid
UuidIndexKeepFirst(index, event, id) ==
    IF event.uuid # None /\ index[event.uuid] = 0
    THEN [index EXCEPT ![event.uuid] = id] ELSE index

\* uuid_index.insert(uuid, entity_id) when the event carries a uuid
UuidIndexAfter(index, event, id) ==
    IF event.uuid # None THEN [index EXCEPT ![event.uuid] = id] ELSE index

\* for tool_id in &event.tool_use_ids { tool_use_index.insert(tool_id, entity_id) }
ToolUseIndexAfter(index, event, id) ==
    [t \in ToolIds |-> IF t \in Range(event.tool_use_ids) THEN id ELSE index[t]]

\* the CHILD_OF edge of store_event: looked up in the index as already updated
ChildOfEdges(index, event, id) ==
    IF event.parent_tool_use_id # None /\ index[event.parent_tool_use_id] # 0
    THEN <<[source |-> id, target |-> index[event.parent_tool_use_id],
            type |-> EDGE_CHILD_OF]>>
    ELSE <<>>

RECURSIVE RespondsToEdges(_, _, _)
\* one RESPONDS_TO edge per tool result whose tool_use_id is in the index
RespondsToEdges(index, results, id) ==
    IF results = <<>> THEN <<>>
    ELSE (IF index[Head(results)] # 0
          THEN <<[source |-> id, target |-> index[Head(results)],
                  type |-> EDGE_RESPONDS_TO]>>
          ELSE <<>>) \o RespondsToEdges(index, Tail(results), id)

\* the edges one store_event call creates, in creation order
NewEdges(index, event, id) ==
    ChildOfEdges(index, event, id) \o RespondsToEdges(index, event.tool_results, id)

\* EdgeStore::create inside the transaction: both endpoints must exist when the
\* store checks endpoints (the new entity exists inside its own transaction)
EdgesAccepted(new, id) ==
    \A i \in DOMAIN new :
        edge_check => new[i].target \in (DOMAIN entities \cup {id})

StoreInit ==
    /\ entities = <<>>
    /\ edges = <<>>
    /\ next_entity_id = 1
    /\ uuid_index = [u \in Uuids |-> 0]
    /\ tool_use_index = [t \in ToolIds |-> 0]
    /\ edge_check \in BOOLEAN

\* a store that keeps only the entity and the edges of the newest event
StoreEventKeepNewest(event) ==
    LET id == next_entity_id
        tui == ToolUseIndexAfter(tool_use_index, event, id)
        new == NewEdges(tui, event, id)
    IN  /\ next_entity_id <= MaxEvents
        /\ EdgesAccepted(new, id)
        /\ entities' = (id :> EventEntity(id, event))
        /\ next_entity_id' = id + 1
        /\ uuid_index' = UuidIndexAfter(uuid_index, event, id)
        /\ tool_use_index' = tui
        /\ edges' = new
        /\ UNCHANGED edge_check

\* store_event returning Ok: entity and edges committed, indexes updated
StoreEventOk(event) ==
    LET id == next_entity_id
        tui == ToolUseIndexAfter(tool_use_index, event, id)
        new == NewEdges(tui, event, id)
    IN  /\ next_entity_id <= MaxEvents
        /\ EdgesAccepted(new, id)
        /\ entities' = (id :> EventEntity(id, event)) @@ entities
        /\ next_entity_id' = id + 1
        /\ uuid_index' = UuidIndexAfter(uuid_index, event, id)
        /\ tool_use_index' = tui
        /\ edges' = edges \o new
        /\ UNCHANGED edge_check

\* store_event returning Err from begin_write or NodeStore::create (graph.rs
\* 146-234): the call returns before it touches the indexes
StoreEventFailEarly(event) ==
    /\ next_entity_id <= MaxEvents
    /\ UNCHANGED storeVars

\* store_event returning Err from EdgeStore::create or tx.commit (graph.rs
\* 250-276): the transaction is dropped, the in-memory indexes were already
\* updated at 238-244 and the id was taken from the generator
StoreEventFailLate(event) ==
    LET id == next_entity_id
    IN  /\ next_entity_id <= MaxEvents
        /\ next_entity_id' = id + 1
        /\ uuid_index' = UuidIndexAfter(uuid_index, event, id)
        /\ tool_use_index' = ToolUseIndexAfter(tool_use_index, event, id)
        /\ UNCHANGED <<entities, edges, edge_check>>

\* get_event_by_uuid: an Option, as the set of no or one entity
GetEventByUuid(uuid) ==
    IF uuid_index[uuid] # 0
    THEN (IF uuid_index[uuid] \in DOMAIN entities
          THEN {entities[uuid_index[uuid]]} ELSE {})
    ELSE {}

\* get_child_events: the sources of the incoming CHILD_OF edges that exist
GetChildEvents(entity_id) ==
    {edges[i].source : i \in {j \in DOMAIN edges :
        /\ edges[j].target = entity_id
        /\ edges[j].type = EDGE_CHILD_OF
        /\ edges[j].source \in DOMAIN entities}}

RECURSIVE Ascending(_)
\* the ids of a set, smallest first
Ascending(ids) ==
    IF ids = {} THEN <<>>
    ELSE LET m == CHOOSE x \in ids : \A y \in ids : x <= y
         IN  <<m>> \o Ascending(ids \ {m})

\* a scan that meets the Event entities newest first
FindNewestFirst ==
    LET a == Ascending(DOMAIN entities)
    IN  [i \in 1 .. Len(a) |-> a[Len(a) + 1 - i]]

\* NodeStore::find_by_label(&tx, LABEL_EVENT): the ids of the committed Event
\* entities, in the order of the label index, which is the order of the ids
FindByLabel == Ascending(DOMAIN entities)

RECURSIVE ScanFrom(_, _, _)
\* the loop of build_indexes from position i of event_ids on: each entity is
\* inserted under its uuid and under each of its tool_use_ids
ScanFrom(event_ids, i, index) ==
    IF i > Len(event_ids) THEN index
    ELSE LET id == event_ids[i]
         IN  ScanFrom(event_ids, i + 1,
                      [tool_use |-> ToolUseIndexAfter(index.tool_use, entities[id], id),
                       uuid |-> UuidIndexAfter(index.uuid, entities[id], id)])

\* build_indexes: both maps start empty and the Event entities are scanned
BuildIndexes ==
    ScanFrom(FindByLabel, 1,
             [tool_use |-> [t \in ToolIds |-> 0], uuid |-> [u \in Uuids |-> 0]])

\* the store is closed and GraphDatabase::open_at is called on its file: a new
\* IdGenerator, and the indexes built from the committed entities
Reopen ==
    /\ next_entity_id' = 1
    /\ uuid_index' = BuildIndexes.uuid
    /\ tool_use_index' = BuildIndexes.tool_use
    /\ UNCHANGED <<entities, edges, edge_check>>

\* store_event returning Err from NodeStore::create because an entity with the
\* id the generator gave exists (the other outcome of such a call is that the
\* entity is replaced: StoreEventOk): the id is taken, the call returns before
\* it touches the indexes
StoreEventExists(event) ==
    /\ next_entity_id <= MaxEvents
    /\ next_entity_id \in DOMAIN entities
    /\ next_entity_id' = next_entity_id + 1
    /\ UNCHANGED <<entities, edges, uuid_index, tool_use_index, edge_check>>

\* events that store_event creates no edge for
PlainEvents ==
    {e \in EventInputs : e.parent_tool_use_id = None /\ e.tool_results = <<>>}

(***************************************************************************)
(*                      THE QUERIES OF THE GRAPH STORE                     *)
(* A caller holds a shared reference to the store and keeps the value the  *)
(* last query returned.                                                    *)
(***************************************************************************)
\* the session ids events carry, and the ones a caller asks for
Sessions == {"s1"}
QuerySessions == {"s1", "s2"}

\* events with a uuid, with or without a session id
SessionEvents ==
    [uuid : Uuids,
     parent_tool_use_id : ToolIds \cup {None},
     tool_use_ids : {<<>>} \cup {<<t>> : t \in ToolIds},
     tool_results : {<<>>},
     session_id : Sessions \cup {None}]

VARIABLES answer    \* the query last called and the value it returned

queryVars == <<answer>>

NoAnswer == [query |-> None, result |-> {}]

QueryIdle == answer = NoAnswer

\* get_events_for_session: the Event entities in the order of find_by_label
\* that have a session_id property equal to the argument
GetEventsForSession(session_id) ==
    LET event_ids == FindByLabel
    IN  SelectSeq([i \in 1 .. Len(event_ids) |-> entities[event_ids[i]]],
                  LAMBDA e : e.session_id # None /\ e.session_id = session_id)

\* a lookup that removes the index entry of an entity that is not stored
LookupEvicting(uuid) ==
    /\ answer' = [query |-> "get_event_by_uuid", result |-> GetEventByUuid(uuid)]
    /\ uuid_index' = IF GetEventByUuid(uuid) = {}
                      THEN [uuid_index EXCEPT ![uuid] = 0] ELSE uuid_index
    /\ UNCHANGED <<entities, edges, next_entity_id, tool_use_index, edge_check>>

\* a call of get_event_by_uuid(&self, uuid)
QueryEventByUuid(uuid) ==
    /\ answer' = [query |-> "get_event_by_uuid", result |-> GetEventByUuid(uuid)]
    /\ UNCHANGED storeVars

\* a call of get_events_for_session(&self, session_id)
QueryEventsForSession(session_id) ==
    /\ answer' = [query |-> "get_events_for_session",
                  result |-> GetEventsForSession(session_id)]
    /\ UNCHANGED storeVars

\* a call of get_child_events(&self, entity_id)
QueryChildEvents(entity_id) ==
    /\ answer' = [query |-> "get_child_events", result |-> GetChildEvents(entity_id)]
    /\ UNCHANGED storeVars

(***************************************************************************)
(*                            THE PROCESS POOL                             *)
(* One action per segment of a task between two suspension points.  A      *)
(* child's output is taken to fit the pipe buffer of the operating system, *)
(* so the child never blocks on a write and its lines are readable from    *)
(* the moment it runs.                                                     *)
(***************************************************************************)
ProcIds == 0 .. (MaxProcs - 1)
Streams == {"Stdout", "Stderr"}
\* the values of ProcessOptions::buffer_size (default 1000) the model draws from
BufferSizes == {1, 2}
\* the concurrency limits a pool is constructed with
Concurrency == {1, 2}

\* ProcessOptions as the pool reads them, with the behaviour of the program:
\* whether it can be spawned and the lines it writes (its exit code shows when it exits)
ProcessInputs ==
    [program_ok : BOOLEAN,
     capture_stdout : BOOLEAN,
     capture_stderr : BOOLEAN,
     buffer_size : BufferSizes,
     timeout : BOOLEAN,
     out_lines : 0 .. MaxLines,
     err_lines : 0 .. MaxLines,
     long : BOOLEAN]

\* a program that cannot be spawned has no behaviour; a stream that is not
\* captured (Stdio::null) carries no lines; "long" (the child outlives the
\* timeout) only means something with a timeout; a program without output is
\* given the smallest channel only (its single Exit item fits every channel)
WellFormed(o) ==
    /\ ~o.program_ok =>
          (o.out_lines = 0 /\ o.err_lines = 0
           /\ o.capture_stdout /\ o.capture_stderr /\ ~o.long)
    /\ (o.out_lines = 0 /\ o.err_lines = 0) =>
          \A b \in BufferSizes : o.buffer_size <= b
    /\ ~o.capture_stdout => o.out_lines = 0
    /\ ~o.capture_stderr => o.err_lines = 0
    /\ o.long => o.timeout

NoOptions ==
    [program_ok |-> FALSE, capture_stdout |-> TRUE, capture_stderr |-> TRUE,
     buffer_size |-> 1, timeout |-> FALSE, out_lines |-> 0, err_lines |-> 0,
     long |-> FALSE]

\* the exit codes of the programs of the model
ExitCodes == {0, 1}
\* std::process::ExitStatus as the raw wait status (unix)
ExitedStatus(code) == code * 256
\* <ExitStatus as ExitStatusExt>::default(): ExitStatus::from_raw(1)
DefaultExitStatus == 1
\* ExitStatus::success
StatusSuccess(status) == status = 0

\* ProcessOutput
OutputLine(stream, k) == [kind |-> stream, line |-> k, status |-> 0]
OutputExit(status) == [kind |-> "Exit", line |-> 0, status |-> status]
NoOutput == [kind |-> "none", line |-> 0, status |-> 0]

\* PoolEvent
Started(id) == [ev |-> "Started", id |-> id, output |-> NoOutput, success |-> FALSE]
Output(id, o) == [ev |-> "Output", id |-> id, output |-> o, success |-> FALSE]
Completed(id, ok) == [ev |-> "Completed", id |-> id, output |-> NoOutput, success |-> ok]

\* the text of the spawn error: "Failed to spawn process: ..."
SpawnErrorText == <<"Failed to spawn process", 0>>
LinesOf(stream, n) == [k \in 1 .. n |-> <<stream, k>>]

\* ProcessResult
NoResult == [set |-> FALSE, status |-> 0, stdout |-> <<>>, stderr |-> <<>>,
             timed_out |-> FALSE]
ProcessResult(status, out, err, timed_out) ==
    [set |-> TRUE, status |-> status, stdout |-> out, stderr |-> err,
     timed_out |-> timed_out]
\* a success that does not look at timed_out
SuccessByStatus(result) == StatusSuccess(result.status)
\* ProcessResult::success
Success(result) == StatusSuccess(result.status) /\ ~result.timed_out

VARIABLES
    max_concurrent,  \* the N the pool was constructed with
    has_events,      \* ProcessPool::with_events rather than ProcessPool::new
    permits,         \* semaphore: available permits
    next_id,         \* next_id: the next pool-scoped id
    lines_left,      \* lines the programs of this behaviour may still be given
    proc,            \* id -> the options (and program behaviour) of the process
    task_pc,         \* id -> where the spawned task is
    child,           \* id -> "none" | "running" | "exited"
    status,          \* id -> the wait status of the child once it has exited
    elapsed,         \* id -> the configured timeout has passed since the child started
    reader,          \* id -> stream -> "none" | "read" | "send_event"
    nread,           \* id -> stream -> number of lines the reader has read and pushed
    out_q,           \* id -> per-process output channel (items not yet received)
    handle,          \* id -> what the caller does with its PooledProcess
    result_slot,     \* id -> the oneshot channel of the result
    event_pending,   \* pool-wide event channel: number of events not yet received
    event_rx,        \* "none" | "alive" | "dropped": the receiver of the event channel
    event_log        \* history: id -> the events of that id delivered to the
                     \* receiver of the event channel (forgotten with the receiver)

poolVars == <<max_concurrent, has_events, permits, next_id, lines_left, proc,
              task_pc, child, status, elapsed, reader, nread, out_q, handle,
              result_slot, event_pending, event_rx, event_log>>

\* the state of a pool on which nothing is spawned
PoolIdleWith(lines) ==
    /\ permits = max_concurrent
    /\ next_id = 0
    /\ lines_left = lines
    /\ proc = [p \in ProcIds |-> NoOptions]
    /\ task_pc = [p \in ProcIds |-> "idle"]
    /\ child = [p \in ProcIds |-> "none"]
    /\ status = [p \in ProcIds |-> 0]
    /\ elapsed = [p \in ProcIds |-> FALSE]
    /\ reader = [p \in ProcIds |-> [s \in Streams |-> "none"]]
    /\ nread = [p \in ProcIds |-> [s \in Streams |-> 0]]
    /\ out_q = [p \in ProcIds |-> <<>>]
    /\ handle = [p \in ProcIds |-> "none"]
    /\ result_slot = [p \in ProcIds |-> NoResult]
    /\ event_pending = 0
    /\ event_rx = IF has_events THEN "alive" ELSE "none"
    /\ event_log = [p \in ProcIds |-> <<>>]

PoolIdle == PoolIdleWith(MaxLines)

\* ProcessPool::new(n) / ProcessPool::with_events(n)
PoolInit ==
    /\ max_concurrent \in Concurrency
    /\ has_events \in BOOLEAN
    /\ PoolIdle

\* tx.send(event).await on the pool-wide channel can complete: there is no
\* channel, the receiver is gone (the error is ignored), or there is room
EventSendReady ==
    \/ ~has_events
    \/ event_rx = "dropped"
    \/ event_pending < EventCapacity

\* whether a completed tx.send(event).await delivered the event
EventDelivered == has_events /\ event_rx = "alive"

\* a history that misses the Output events
EventLogWithoutOutput(p, e) ==
    IF EventDelivered /\ e.ev # "Output"
    THEN [event_log EXCEPT ![p] = Append(@, e)] ELSE event_log

\* the event channel and its history after tx.send(e).await completed for id p
EventPendingAfter == IF EventDelivered THEN event_pending + 1 ELSE event_pending
EventLogAfter(p, e) ==
    IF EventDelivered THEN [event_log EXCEPT ![p] = Append(@, e)] ELSE event_log

\* the receiver of the output channel of p is gone
OutputClosed(p) == handle[p] \in {"dropped", "returned"}

\* a send that completes whatever the channel holds
OutputNeverFull(p) == TRUE

\* output_tx.send(item).await of process p can complete
OutputSendReady(p) ==
    \/ OutputClosed(p)
    \/ Len(out_q[p]) < proc[p].buffer_size

\* a channel that hands its newest item out first
OutputQueueLifo(p, item) ==
    IF OutputClosed(p) THEN out_q ELSE [out_q EXCEPT ![p] = <<item>> \o @]

\* the output channel of p after output_tx.send(item).await completed
OutputQueueAfter(p, item) ==
    IF OutputClosed(p) THEN out_q ELSE [out_q EXCEPT ![p] = Append(@, item)]

\* a spawn that returns its handle once a permit is free
SpawnAfterSlot(o) ==
    /\ permits > 0
    /\ next_id < MaxProcs
    /\ WellFormed(o)
    /\ o.out_lines + o.err_lines <= lines_left
    /\ lines_left' = lines_left - (o.out_lines + o.err_lines)
    /\ next_id' = next_id + 1
    /\ proc' = [proc EXCEPT ![next_id] = o]
    /\ task_pc' = [task_pc EXCEPT ![next_id] = "acquire"]
    /\ handle' = [handle EXCEPT ![next_id] = "held"]
    /\ UNCHANGED <<max_concurrent, has_events, permits, child, status, elapsed, reader,
                   nread, out_q, result_slot, event_pending, event_rx, event_log>>

\* ProcessPool::spawn: the id, the channels, the spawned task; returns the handle
Spawn(o) ==
    /\ next_id < MaxProcs
    /\ WellFormed(o)
    /\ o.out_lines + o.err_lines <= lines_left
    /\ lines_left' = lines_left - (o.out_lines + o.err_lines)
    /\ next_id' = next_id + 1
    /\ proc' = [proc EXCEPT ![next_id] = o]
    /\ task_pc' = [task_pc EXCEPT ![next_id] = "acquire"]
    /\ handle' = [handle EXCEPT ![next_id] = "held"]
    /\ UNCHANGED <<max_concurrent, has_events, permits, child, status, elapsed, reader,
                   nread, out_q, result_slot, event_pending, event_rx, event_log>>

\* a semaphore that never makes a task wait
NoSemaphore == TRUE

\* semaphore.acquire().await can complete
AcquireReady == permits > 0

\* semaphore.acquire().await
Acquire(p) ==
    /\ task_pc[p] = "acquire"
    /\ AcquireReady
    /\ permits' = permits - 1
    /\ task_pc' = [task_pc EXCEPT ![p] = "started"]
    /\ UNCHANGED <<max_concurrent, has_events, next_id, lines_left, proc, child, status,
                   elapsed, reader, nread, out_q, handle, result_slot,
                   event_pending, event_rx, event_log>>

\* the readers run_process_internal spawns: one per captured stream
ReadersAtSpawn(o) ==
    [s \in Streams |->
        IF (s = "Stdout" /\ o.capture_stdout) \/ (s = "Stderr" /\ o.capture_stderr)
        THEN "read" ELSE "none"]

\* tx.send(Started).await completes; run_process_internal starts: cmd.spawn()
\* either fails (the Err arm of the match follows) or the child runs and the
\* readers are spawned
StartAndSpawn(p) ==
    /\ task_pc[p] = "started"
    /\ EventSendReady
    /\ event_pending' = EventPendingAfter
    /\ event_log' = EventLogAfter(p, Started(p))
    /\ child' = [child EXCEPT ![p] = IF proc[p].program_ok THEN "running" ELSE @]
    /\ reader' = [reader EXCEPT ![p] =
          IF proc[p].program_ok THEN ReadersAtSpawn(proc[p]) ELSE @]
    /\ task_pc' = [task_pc EXCEPT ![p] =
          IF proc[p].program_ok THEN "join" ELSE "failed"]
    /\ UNCHANGED <<max_concurrent, has_events, permits, next_id, lines_left, proc,
                   status, elapsed, nread, out_q, handle, result_slot, event_rx>>

\* the lines a stream of p carries
LinesWritten(p, s) == IF s = "Stdout" THEN proc[p].out_lines ELSE proc[p].err_lines

\* reader.next_line().await returns Some(line), lines.push(line), and
\* output_tx.send(Stdout/Stderr(line)).await completes; without an event
\* channel the loop is back at next_line
ReaderReadAndSend(p, s) ==
    /\ reader[p][s] = "read"
    /\ nread[p][s] < LinesWritten(p, s)
    /\ OutputSendReady(p)
    /\ nread' = [nread EXCEPT ![p][s] = @ + 1]
    /\ out_q' = OutputQueueAfter(p, OutputLine(s, nread[p][s] + 1))
    /\ reader' = [reader EXCEPT ![p][s] = IF has_events THEN "send_event" ELSE "read"]
    /\ UNCHANGED <<max_concurrent, has_events, permits, next_id, lines_left, proc,
                   task_pc, child, status, elapsed, handle, result_slot, event_pending,
                   event_rx, event_log>>

\* tx.send(PoolEvent::Output{..}).await completes
ReaderSendEvent(p, s) ==
    /\ reader[p][s] = "send_event"
    /\ EventSendReady
    /\ event_pending' = EventPendingAfter
    /\ event_log' = EventLogAfter(p, Output(p, OutputLine(s, nread[p][s])))
    /\ reader' = [reader EXCEPT ![p][s] = "read"]
    /\ UNCHANGED <<max_concurrent, has_events, permits, next_id, lines_left, proc,
                   task_pc, child, status, elapsed, nread, out_q, handle, result_slot,
                   event_rx>>

\* the configured timeout passes while the child runs (the pool has no timer:
\* this is time passing)
Elapse(p) ==
    /\ child[p] = "running"
    /\ proc[p].timeout
    /\ proc[p].long
    /\ ~elapsed[p]
    /\ elapsed' = [elapsed EXCEPT ![p] = TRUE]
    /\ UNCHANGED <<max_concurrent, has_events, permits, next_id, lines_left, proc,
                   task_pc, child, status, reader, nread, out_q, handle, result_slot,
                   event_pending, event_rx, event_log>>

\* an exit that takes the running children of the other processes down with it
ChildExitKillsAll(p, code) ==
    /\ child[p] = "running"
    /\ proc[p].long => elapsed[p]
    /\ child' = [q \in ProcIds |-> IF child[q] = "running" THEN "exited" ELSE child[q]]
    /\ status' = [q \in ProcIds |->
                     IF q = p THEN ExitedStatus(code)
                     ELSE IF child[q] = "running" THEN 9 ELSE status[q]]
    /\ UNCHANGED <<max_concurrent, has_events, permits, next_id, lines_left, proc,
                   task_pc, elapsed, reader, nread, out_q, handle, result_slot,
                   event_pending, event_rx, event_log>>

\* the child exits by itself with some exit code; a long child only after its
\* timeout has passed
ChildExit(p, code) ==
    /\ child[p] = "running"
    /\ proc[p].long => elapsed[p]
    /\ child' = [child EXCEPT ![p] = "exited"]
    /\ status' = [status EXCEPT ![p] = ExitedStatus(code)]
    /\ UNCHANGED <<max_concurrent, has_events, permits, next_id, lines_left, proc,
                   task_pc, elapsed, reader, nread, out_q, handle, result_slot,
                   event_pending, event_rx, event_log>>

\* a task that does not join its readers
ReaderUnjoined(p, s) == TRUE

\* the reader of stream s of p has returned its lines, or there is none:
\* reader.next_line().await returns None once the child has exited and the pipe
\* is empty
ReaderFinished(p, s) ==
    \/ reader[p][s] = "none"
    \/ /\ reader[p][s] = "read"
       /\ nread[p][s] = LinesWritten(p, s)
       /\ child[p] = "exited"

\* a task that goes on to its result without sending Exit
JoinWaitNoExit(p) ==
    /\ task_pc[p] = "join"
    /\ \A s \in Streams : ReaderFinished(p, s)
    /\ child[p] = "exited"
    /\ task_pc' = [task_pc EXCEPT ![p] = "completed"]
    /\ UNCHANGED <<max_concurrent, has_events, permits, next_id, lines_left, proc,
                   child, status, elapsed, reader, nread, out_q, handle, result_slot,
                   event_pending, event_rx, event_log>>

\* both reader handles are joined, child.wait().await returns and
\* output_tx.send(ProcessOutput::Exit(status)).await completes
JoinWaitSendExit(p) ==
    /\ task_pc[p] = "join"
    /\ \A s \in Streams : ReaderFinished(p, s)
    /\ child[p] = "exited"
    /\ OutputSendReady(p)
    /\ out_q' = OutputQueueAfter(p, OutputExit(status[p]))
    /\ task_pc' = [task_pc EXCEPT ![p] = "completed"]
    /\ UNCHANGED <<max_concurrent, has_events, permits, next_id, lines_left, proc,
                   child, status, elapsed, reader, nread, handle, result_slot,
                   event_pending, event_rx, event_log>>

\* the Ok(ProcessResult) of run_process_internal (pool.rs 332-337)
InternalResult(p) ==
    ProcessResult(status[p],
                  LinesOf("Stdout", nread[p]["Stdout"]),
                  LinesOf("Stderr", nread[p]["Stderr"]),
                  FALSE)

\* a synthetic result with the status of a successful exit
SyntheticSuccess ==
    ProcessResult(0, <<>>, <<SpawnErrorText>>, FALSE)

\* the result the Err arm sends (pool.rs 161-166)
SyntheticResult ==
    ProcessResult(DefaultExitStatus, <<>>, <<SpawnErrorText>>, FALSE)

\* the result of the task of p, by the arm of the match it is in
TaskResult(p) ==
    IF task_pc[p] = "failed" THEN SyntheticResult ELSE InternalResult(p)

\* a task that ends without giving its permit back
PermitKept(n) == n

\* the permits after the task ended and dropped its permit
PermitsAfterRelease(n) == n + 1

\* tx.send(Completed).await completes, result_tx.send(result), and the task
\* ends: the permit is dropped
Complete(p) ==
    /\ task_pc[p] \in {"completed", "failed"}
    /\ EventSendReady
    /\ event_pending' = EventPendingAfter
    /\ event_log' = EventLogAfter(p, Completed(p, Success(TaskResult(p))))
    /\ result_slot' = [result_slot EXCEPT ![p] = TaskResult(p)]
    /\ permits' = PermitsAfterRelease(permits)
    /\ task_pc' = [task_pc EXCEPT ![p] = "done"]
    /\ UNCHANGED <<max_concurrent, has_events, next_id, lines_left, proc, child, status,
                   elapsed, reader, nread, out_q, handle, event_rx>>

\* the caller receives one item from proc.output
RecvOutput(p) ==
    /\ handle[p] = "held"
    /\ out_q[p] # <<>>
    /\ out_q' = [out_q EXCEPT ![p] = Tail(@)]
    /\ UNCHANGED <<max_concurrent, has_events, permits, next_id, lines_left, proc,
                   task_pc, child, status, elapsed, reader, nread, handle, result_slot,
                   event_pending, event_rx, event_log>>

\* the caller calls PooledProcess::wait: the handle moves into the future, which
\* awaits result_rx and keeps the output receiver, unread, until it returns
CallWait(p) ==
    /\ handle[p] = "held"
    /\ handle' = [handle EXCEPT ![p] = "waiting"]
    /\ UNCHANGED <<max_concurrent, has_events, permits, next_id, lines_left, proc,
                   task_pc, child, status, elapsed, reader, nread, out_q, result_slot,
                   event_pending, event_rx, event_log>>

\* PooledProcess::wait returns the result; the handle, with its receiver, is dropped
WaitReturns(p) ==
    /\ handle[p] = "waiting"
    /\ result_slot[p].set
    /\ handle' = [handle EXCEPT ![p] = "returned"]
    /\ out_q' = [out_q EXCEPT ![p] = <<>>]
    /\ UNCHANGED <<max_concurrent, has_events, permits, next_id, lines_left, proc,
                   task_pc, child, status, elapsed, reader, nread, result_slot,
                   event_pending, event_rx, event_log>>

\* the caller drops the handle without waiting
DropHandle(p) ==
    /\ handle[p] = "held"
    /\ handle' = [handle EXCEPT ![p] = "dropped"]
    /\ out_q' = [out_q EXCEPT ![p] = <<>>]
    /\ UNCHANGED <<max_concurrent, has_events, permits, next_id, lines_left, proc,
                   task_pc, child, status, elapsed, reader, nread, result_slot,
                   event_pending, event_rx, event_log>>

\* the observer receives one event from the pool-wide channel
RecvEvent ==
    /\ event_rx = "alive"
    /\ event_pending > 0
    /\ event_pending' = event_pending - 1
    /\ UNCHANGED <<max_concurrent, has_events, permits, next_id, lines_left, proc,
                   task_pc, child, status, elapsed, reader, nread, out_q, handle,
                   result_slot, event_rx, event_log>>

\* the observer drops the receiver of the pool-wide channel
DropEvents ==
    /\ event_rx = "alive"
    /\ event_rx' = "dropped"
    /\ event_pending' = 0
    /\ event_log' = [p \in ProcIds |-> <<>>]
    /\ UNCHANGED <<max_concurrent, has_events, permits, next_id, lines_left, proc,
                   task_pc, child, status, elapsed, reader, nread, out_q, handle,
                   result_slot>>

\* the processes of the pool specification: both streams captured (the
\* defaults of ProcessOptions::new), no timeout
PoolInputs ==
    {o \in ProcessInputs : o.capture_stdout /\ o.capture_stderr /\ ~o.timeout}

\* processes that can write several lines on each stream, both captured
LineInputs ==
    [program_ok : BOOLEAN,
     capture_stdout : {TRUE},
     capture_stderr : {TRUE},
     buffer_size : BufferSizes,
     timeout : BOOLEAN,
     out_lines : 0 .. MaxStreamLines,
     err_lines : 0 .. MaxStreamLines,
     long : BOOLEAN]

\* the processes of the pool specification with timeouts: programs that can be
\* spawned, both streams captured, with or without a timeout
TimeoutInputs ==
    {o \in ProcessInputs : o.capture_stdout /\ o.capture_stderr /\ o.program_ok}

(***************************************************************************)
(*                        ProcessPool::spawn_all                           *)
(* The caller of spawn_all is suspended in it: the handles are in a local  *)
(* vector, nothing receives from their output channels, and they are       *)
(* waited for one at a time, in the order of the batch.                    *)
(***************************************************************************)
VARIABLES
    batch_pc,        \* "idle" | "spawn" | "wait" | "returned": where spawn_all is
    batch_len,       \* options_list.len()
    results          \* the HashMap spawn_all builds: id -> ProcessResult

batchVars == <<batch_pc, batch_len, results>>

\* no call of spawn_all
BatchIdle ==
    /\ batch_pc = "idle"
    /\ batch_len = 0
    /\ results = [p \in {} |-> NoResult]

\* spawn_all(options_list) is called with n specifications
SpawnAll(n) ==
    /\ batch_pc = "idle"
    /\ batch_pc' = "spawn"
    /\ batch_len' = n
    /\ UNCHANGED <<results, poolVars>>

\* the first loop: self.spawn(options).await?, handles.push(proc)
BatchSpawn(o) ==
    /\ batch_pc = "spawn"
    /\ next_id < batch_len
    /\ Spawn(o)
    /\ UNCHANGED batchVars

\* the first loop is over
BatchSpawned ==
    /\ batch_pc = "spawn"
    /\ next_id = batch_len
    /\ batch_pc' = "wait"
    /\ UNCHANGED <<batch_len, results, poolVars>>

\* the second loop reaches proc: proc.wait() is called
BatchWait(p) ==
    /\ batch_pc = "wait"
    /\ \A q \in ProcIds : q < p => handle[q] = "returned"
    /\ CallWait(p)
    /\ UNCHANGED batchVars

\* HashMap::insert
Insert(map, k, v) ==
    [q \in (DOMAIN map) \cup {k} |-> IF q = k THEN v ELSE map[q]]

\* proc.wait().await? returns, results.insert(id, result); after the last
\* handle spawn_all returns Ok(results)
BatchCollect(p) ==
    /\ batch_pc = "wait"
    /\ WaitReturns(p)
    /\ results' = Insert(results, p, result_slot[p])
    /\ batch_pc' = IF p + 1 = batch_len THEN "returned" ELSE "wait"
    /\ UNCHANGED batch_len

(***************************************************************************)
(*                     THE SUPERVISOR: spawn_process                       *)
(* One call of spawn_process.  A long child outlives the timeout by far:   *)
(* it exits by itself only after the supervisor has reacted, or failed to  *)
(* react, to the timeout.                                                  *)
(***************************************************************************)
\* the wait status of a child killed by child.kill() (SIGKILL)
KilledStatus == 9

VARIABLES
    sup_options,     \* the ProcessOptions of the call (and the program's behaviour)
    sup_pc,          \* "idle" | "collect" | "wait" | "returned" | "error"
    sup_child,       \* "none" | "running" | "exited"
    sup_status,      \* the wait status of the child once it is over
    sup_elapsed,     \* the timeout has passed while the child was running
    sup_sent,        \* stream -> number of lines the reader task has sent
    sup_rx,          \* the items in the channel
    stdout_lines,    \* the lines collect_future has pushed
    stderr_lines,
    timed_out,       \* the local timed_out
    sup_result       \* the ProcessResult returned

supVars == <<sup_options, sup_pc, sup_child, sup_status, sup_elapsed, sup_sent,
             sup_rx, stdout_lines, stderr_lines, timed_out, sup_result>>

\* no call of spawn_process
SupInit ==
    /\ sup_options = NoOptions
    /\ sup_pc = "idle"
    /\ sup_child = "none"
    /\ sup_status = 0
    /\ sup_elapsed = FALSE
    /\ sup_sent = [s \in Streams |-> 0]
    /\ sup_rx = <<>>
    /\ stdout_lines = <<>>
    /\ stderr_lines = <<>>
    /\ timed_out = FALSE
    /\ sup_result = NoResult

\* whether stream s is piped to a reader task
Captured(o, s) ==
    IF s = "Stdout" THEN o.capture_stdout ELSE o.capture_stderr

\* the lines the program writes on stream s
SupLines(s) ==
    IF s = "Stdout" THEN sup_options.out_lines ELSE sup_options.err_lines

\* spawn_process(options) up to collect_future: cmd.spawn() fails and the error
\* is returned, or the child runs, the reader tasks are spawned and the
\* original sender is dropped
SpawnProcess(o) ==
    /\ sup_pc = "idle"
    /\ WellFormed(o)
    /\ sup_options' = o
    /\ sup_pc' = IF o.program_ok THEN "collect" ELSE "error"
    /\ sup_child' = IF o.program_ok THEN "running" ELSE "none"
    /\ UNCHANGED <<sup_status, sup_elapsed, sup_sent, sup_rx, stdout_lines,
                   stderr_lines, timed_out, sup_result>>

\* a reader task: next_line() returns a line and tx.send(line).await completes
\* (once the call has returned the receiver is gone: the send fails and the
\* reader task ends)
SupReaderSend(s) ==
    /\ sup_child # "none"
    /\ sup_pc # "returned"
    /\ Captured(sup_options, s)
    /\ sup_sent[s] < SupLines(s)
    /\ Len(sup_rx) < sup_options.buffer_size
    /\ sup_sent' = [sup_sent EXCEPT ![s] = @ + 1]
    /\ sup_rx' = Append(sup_rx, OutputLine(s, sup_sent[s] + 1))
    /\ UNCHANGED <<sup_options, sup_pc, sup_child, sup_status, sup_elapsed,
                   stdout_lines, stderr_lines, timed_out, sup_result>>

\* the reader task of stream s is over and its sender dropped, or there is
\* none: next_line() returns None once the child is over and the pipe is empty
SenderGone(s) ==
    \/ ~Captured(sup_options, s)
    \/ sup_sent[s] = SupLines(s) /\ sup_child = "exited"

\* rx.recv() returns None: every sender is dropped and the channel is empty
ChannelClosed == sup_rx = <<>> /\ \A s \in Streams : SenderGone(s)

\* collect_future: rx.recv().await returns Some(output), the line is pushed
CollectRecv ==
    /\ sup_pc = "collect"
    /\ sup_rx # <<>>
    /\ sup_rx' = Tail(sup_rx)
    /\ stdout_lines' = IF Head(sup_rx).kind = "Stdout"
                       THEN Append(stdout_lines, <<"Stdout", Head(sup_rx).line>>)
                       ELSE stdout_lines
    /\ stderr_lines' = IF Head(sup_rx).kind = "Stderr"
                       THEN Append(stderr_lines, <<"Stderr", Head(sup_rx).line>>)
                       ELSE stderr_lines
    /\ UNCHANGED <<sup_options, sup_pc, sup_child, sup_status, sup_elapsed,
                   sup_sent, timed_out, sup_result>>

\* collect_future completes: rx.recv().await returns None
CollectEnd ==
    /\ sup_pc = "collect"
    /\ ChannelClosed
    /\ sup_pc' = "wait"
    /\ UNCHANGED <<sup_options, sup_child, sup_status, sup_elapsed, sup_sent,
                   sup_rx, stdout_lines, stderr_lines, timed_out, sup_result>>

\* the configured timeout passes while the child runs
SupElapse ==
    /\ sup_child = "running"
    /\ sup_options.timeout
    /\ sup_options.long
    /\ ~sup_elapsed
    /\ sup_elapsed' = TRUE
    /\ UNCHANGED <<sup_options, sup_pc, sup_child, sup_status, sup_sent, sup_rx,
                   stdout_lines, stderr_lines, timed_out, sup_result>>

\* timeout(duration, collect_future) returns Err: the duration has passed and
\* collect_future is pending; timed_out = true and child.kill().await
TimeoutFires ==
    /\ sup_pc = "collect"
    /\ sup_options.timeout
    /\ sup_elapsed
    /\ sup_rx = <<>>
    /\ ~ChannelClosed
    /\ timed_out' = TRUE
    /\ sup_child' = "exited"
    /\ sup_status' = IF sup_child = "running" THEN KilledStatus ELSE sup_status
    /\ sup_pc' = "wait"
    /\ UNCHANGED <<sup_options, sup_elapsed, sup_sent, sup_rx, stdout_lines,
                   stderr_lines, sup_result>>

\* the child exits by itself with some exit code; a long child only after the
\* timeout has passed and is no longer awaited
SupChildExit(code) ==
    /\ sup_child = "running"
    /\ sup_options.long => (sup_elapsed /\ sup_pc # "collect")
    /\ sup_child' = "exited"
    /\ sup_status' = ExitedStatus(code)
    /\ UNCHANGED <<sup_options, sup_pc, sup_elapsed, sup_sent, sup_rx,
                   stdout_lines, stderr_lines, timed_out, sup_result>>

\* child.wait().await returns and Ok(ProcessResult{..}) is returned
SupWait ==
    /\ sup_pc = "wait"
    /\ sup_child = "exited"
    /\ sup_result' = ProcessResult(sup_status, stdout_lines, stderr_lines, timed_out)
    /\ sup_pc' = "returned"
    /\ UNCHANGED <<sup_options, sup_child, sup_status, sup_elapsed, sup_sent,
                   sup_rx, stdout_lines, stderr_lines, timed_out>>

(***************************************************************************)
(*                        spawn_process_streaming                          *)
(* One call: the child is spawned, a reader task per captured stream and a *)
(* task that waits for the child are started, and the receiver of the      *)
(* channel is returned to the caller, who receives from it.                *)
(***************************************************************************)
\* the options of a call; ProcessOptions::timeout is not read
StreamingInputs == {o \in ProcessInputs : WellFormed(o) /\ ~o.timeout}

VARIABLES
    str_options,     \* the options of the call
    str_pc,          \* "idle" | "error" | "streaming": what the call returned
    str_child,       \* "none" | "running" | "exited"
    str_status,      \* the wait status of the child once it has exited
    str_reader,      \* stream -> "none" | "read" | "ended": the reader task
    str_sent,        \* stream -> number of lines the reader task has sent
    str_handle,      \* "none" | "wait" | "ended": the task that waits for the child
    str_rx,          \* the channel: items sent and not yet received
    str_receiver,    \* "none" | "alive" | "dropped": the receiver the caller got
    str_seen         \* history: the items the caller has received, oldest first

streamVars == <<str_options, str_pc, str_child, str_status, str_reader, str_sent,
                str_handle, str_rx, str_receiver, str_seen>>

\* no call of spawn_process_streaming
StreamIdle ==
    /\ str_options = NoOptions
    /\ str_pc = "idle"
    /\ str_child = "none"
    /\ str_status = 0
    /\ str_reader = [s \in Streams |-> "none"]
    /\ str_sent = [s \in Streams |-> 0]
    /\ str_handle = "none"
    /\ str_rx = <<>>
    /\ str_receiver = "none"
    /\ str_seen = <<>>

\* the lines the program writes on stream s
StreamLines(s) ==
    IF s = "Stdout" THEN str_options.out_lines ELSE str_options.err_lines

\* spawn_process_streaming(options): cmd.spawn() fails and the error is
\* returned, or the child runs, the tasks are spawned and (rx, handle) returned
SpawnProcessStreaming(o) ==
    /\ str_pc = "idle"
    /\ str_options' = o
    /\ str_pc' = IF o.program_ok THEN "streaming" ELSE "error"
    /\ str_child' = IF o.program_ok THEN "running" ELSE "none"
    /\ str_reader' = [s \in Streams |->
                         IF o.program_ok /\ Captured(o, s) THEN "read" ELSE "none"]
    /\ str_handle' = IF o.program_ok THEN "wait" ELSE "none"
    /\ str_receiver' = IF o.program_ok THEN "alive" ELSE "none"
    /\ UNCHANGED <<str_status, str_sent, str_rx, str_seen>>

\* the channel takes an item: tx.send(item).await completes with Ok
StreamSendReady == str_receiver = "alive" /\ Len(str_rx) < str_options.buffer_size

\* a reader task: next_line() returns a line and tx.send(line).await completes
StreamReaderSend(s) ==
    /\ str_reader[s] = "read"
    /\ str_sent[s] < StreamLines(s)
    /\ StreamSendReady
    /\ str_sent' = [str_sent EXCEPT ![s] = @ + 1]
    /\ str_rx' = Append(str_rx, OutputLine(s, str_sent[s] + 1))
    /\ UNCHANGED <<str_options, str_pc, str_child, str_status, str_reader,
                   str_handle, str_receiver, str_seen>>

\* a reader task ends: tx.send fails because the receiver is gone (break), or
\* next_line() returns None once the child is over and the pipe is empty
StreamReaderEnd(s) ==
    /\ str_reader[s] = "read"
    /\ \/ str_receiver = "dropped" /\ str_sent[s] < StreamLines(s)
       \/ str_sent[s] = StreamLines(s) /\ str_child = "exited"
    /\ str_reader' = [str_reader EXCEPT ![s] = "ended"]
    /\ UNCHANGED <<str_options, str_pc, str_child, str_status, str_sent,
                   str_handle, str_rx, str_receiver, str_seen>>

\* the child exits with some exit code; what it wrote stays in its pipes
StreamChildExit(code) ==
    /\ str_child = "running"
    /\ str_child' = "exited"
    /\ str_status' = ExitedStatus(code)
    /\ UNCHANGED <<str_options, str_pc, str_reader, str_sent, str_handle,
                   str_rx, str_receiver, str_seen>>

\* the task of the returned handle: child.wait().await returns,
\* tx.send(Exit(status)).await completes (an error is ignored), Ok(status);
\* the reader tasks are not awaited
StreamWaitSendExit ==
    /\ str_handle = "wait"
    /\ str_child = "exited"
    /\ str_receiver = "dropped" \/ StreamSendReady
    /\ str_rx' = IF str_receiver = "alive"
                 THEN Append(str_rx, OutputExit(str_status)) ELSE str_rx
    /\ str_handle' = "ended"
    /\ UNCHANGED <<str_options, str_pc, str_child, str_status, str_reader,
                   str_sent, str_receiver, str_seen>>

\* the caller: rx.recv().await returns Some(item)
StreamRecv ==
    /\ str_receiver = "alive"
    /\ str_rx # <<>>
    /\ str_seen' = Append(str_seen, Head(str_rx))
    /\ str_rx' = Tail(str_rx)
    /\ UNCHANGED <<str_options, str_pc, str_child, str_status, str_reader,
                   str_sent, str_handle, str_receiver>>

\* the caller drops the receiver
StreamDropReceiver ==
    /\ str_receiver = "alive"
    /\ str_receiver' = "dropped"
    /\ str_rx' = <<>>
    /\ UNCHANGED <<str_options, str_pc, str_child, str_status, str_reader,
                   str_sent, str_handle, str_seen>>

(***************************************************************************)
(*                   THE FORK REGISTRY BEHIND THE SERVER                   *)
(* The handlers of the HTTP server run concurrently on the worker threads  *)
(* of the runtime.  Each one takes a guard of ServerState::db_manager, a   *)
(* tokio RwLock, on its first line and holds it until it returns.  A Fork  *)
(* entity takes its id from the generator the events take theirs from.     *)
(***************************************************************************)
LABEL_FORK == "Fork"
ForkIds == {"f1"}
\* the status strings a request carries (UpdateForkRequest::status is a String)
Statuses == {"running", "completed", "failed"}
Reqs == 1 .. MaxReqs

\* the items of IngestRequest::events: a JSON value ClaudeEvent::parse returns
\* None for, or one it returns an event for (an event without ids here)
IngestEvents ==
    {e \in EventInputs : /\ e.uuid = None
                         /\ e.parent_tool_use_id = None
                         /\ e.tool_use_ids = <<>>
                         /\ e.tool_results = <<>>}
IngestItems ==
    [parses : BOOLEAN, event : IngestEvents]
RECURSIVE SeqsUpTo(_, _)
SeqsUpTo(S, n) ==
    IF n = 0 THEN {<<>>}
    ELSE SeqsUpTo(S, n - 1) \cup
         {Append(q, x) : q \in {b \in SeqsUpTo(S, n - 1) : Len(b) = n - 1}, x \in S}
IngestBatches == SeqsUpTo(IngestItems, MaxBatch)

VARIABLES
    forks,           \* committed Fork entities: fork_id -> set of no or one entity
    readers,         \* the handlers holding a read guard of db_manager
    writer,          \* the handlers holding the write guard of db_manager
    handler          \* handler -> its position and locals

serverVars == <<forks, readers, writer, handler>>

\* a handler no request has reached
IdleHandler ==
    [pc |-> "idle", op |-> None, fork_id |-> None, status |-> None,
     session_id |-> None, entity |-> {},
     batch |-> <<>>, n |-> 0, stored |-> 0, errors |-> 0]

ServerInit ==
    /\ forks = [f \in ForkIds |-> {}]
    /\ readers = {}
    /\ writer = {}
    /\ handler = [r \in Reqs |-> IdleHandler]

\* a handler of a fork request that has answered: its locals are gone
Answered(h) == [IdleHandler EXCEPT !.pc = "done", !.op = h.op]

\* Entity::new(id).with_label(LABEL_FORK) and the properties create_fork sets
\* (a parent session and a fork name are given); session_id is not set yet
ForkEntity(id, fork_id, st) ==
    [id |-> id, label |-> LABEL_FORK, fork_id |-> fork_id, status |-> st,
     read |-> FALSE, created_at |-> TRUE, completed_at |-> FALSE,
     parent_session_id |-> "parent-sess", fork_name |-> "name", session_id |-> None]

\* RwLock::write().await returns: no guard is held
WriteLockReady == readers = {} /\ writer = {}

\* RwLock::read().await returns: no write guard is held
ReadLockReady == writer = {}

\* a request reaches handler r (the handlers are taken in order)
Arrives(r) ==
    /\ handler[r].pc = "idle"
    /\ \A q \in Reqs : q < r => handler[q].pc # "idle"

\* POST /api/forks reaches the handler create_fork: the write guard is taken
\* and get_or_create returns the database (fork ids are fresh: run_fork makes
\* a new one for every fork)
CreateForkLock(r, f) ==
    /\ Arrives(r)
    /\ forks[f] = {}
    /\ next_entity_id <= MaxEvents
    /\ WriteLockReady
    /\ writer' = {r}
    /\ handler' = [handler EXCEPT ![r] =
                      [IdleHandler EXCEPT !.pc = "create_fork", !.op = "create_fork",
                                          !.fork_id = f,
                                          !.status = "running"]]
    /\ UNCHANGED <<forks, readers, storeVars>>

\* GraphDatabase::create_fork returns Ok: the entity is committed with the
\* next id of the generator; the handler answers and drops the guard
CreateForkDone(r) ==
    /\ handler[r].pc = "create_fork"
    /\ forks' = [forks EXCEPT ![handler[r].fork_id] =
                    {ForkEntity(next_entity_id, handler[r].fork_id, handler[r].status)}]
    /\ next_entity_id' = next_entity_id + 1
    /\ writer' = writer \ {r}
    /\ handler' = [handler EXCEPT ![r] = Answered(@)]
    /\ UNCHANGED <<readers, entities, edges, uuid_index, tool_use_index, edge_check>>

\* update_fork_status(&self, fork_id, status, session_id) is called through a
\* shared reference to the database, which a read guard of db_manager gives
UpdateForkCall(r, f, st, sid) ==
    /\ Arrives(r)
    /\ ReadLockReady
    /\ readers' = readers \cup {r}
    /\ handler' = [handler EXCEPT ![r] =
                      [IdleHandler EXCEPT !.pc = "update_fork", !.op = "update_fork",
                                          !.fork_id = f,
                                          !.status = st,
                                          !.session_id = sid]]
    /\ UNCHANGED <<forks, writer, storeVars>>

\* PATCH /api/forks/{fork_id} reaches the handler update_fork: a READ guard is
\* taken (state.db_manager.read().await) and update_fork_status is called
\* with the fork id and the status of the request, without a session id
UpdateForkLock(r, f, st) == UpdateForkCall(r, f, st, None)

\* a lookup that makes up a Fork entity when there is none
MatchingOrDefault(f) ==
    IF forks[f] = {} THEN {ForkEntity(next_entity_id, f, "running")} ELSE forks[f]

\* the first Fork entity whose fork_id property is f, if there is one
Matching(f) == forks[f]

\* update_fork_status, the read transactions: the Fork entities are scanned
\* for fork_id; without a match Ok(()) is returned and the guard dropped
UpdateForkScan(r) ==
    /\ handler[r].pc = "update_fork"
    /\ IF Matching(handler[r].fork_id) = {}
       THEN /\ handler' = [handler EXCEPT ![r] = Answered(@)]
            /\ readers' = readers \ {r}
       ELSE /\ handler' = [handler EXCEPT ![r].pc = "scanned",
                                          ![r].entity = Matching(handler[r].fork_id)]
            /\ UNCHANGED readers
    /\ UNCHANGED <<forks, writer, storeVars>>

\* a stamp for the status completed only
OnlyCompleted(st) == st = "completed"

\* whether update_fork_status stamps completed_at
Terminal(st) == st \in {"completed", "failed"}

\* updated = entity.clone() with "status" (and "completed_at") inserted
UpdatedEntity(entity, st) ==
    [entity EXCEPT !.status = st,
                   !.completed_at = IF Terminal(st) THEN TRUE ELSE @]

\* an update that also marks the fork unread
WithSessionUnread(entity, sid) ==
    [entity EXCEPT !.read = FALSE, !.session_id = IF sid = None THEN @ ELSE sid]

\* "session_id" inserted when the caller gives one
WithSession(entity, sid) ==
    IF sid = None THEN entity ELSE [entity EXCEPT !.session_id = sid]

\* an update built from the entity as it is stored when the update is written
StoredNow(r) == forks[handler[r].fork_id]

\* the entity an update is built from: the one its read transaction returned
Snapshot(r) == handler[r].entity

\* update_fork_status, the write transaction: the clone of the entity read
\* before is written with the status of the request, whatever the status of
\* the fork is; the handler answers and drops its guard
UpdateForkWrite(r) ==
    /\ handler[r].pc = "scanned"
    /\ handler[r].op = "update_fork"
    /\ forks' = [forks EXCEPT ![handler[r].fork_id] =
                    {WithSession(UpdatedEntity(e, handler[r].status),
                                 handler[r].session_id) : e \in Snapshot(r)}]
    /\ readers' = readers \ {r}
    /\ handler' = [handler EXCEPT ![r] = Answered(@)]
    /\ UNCHANGED <<writer, storeVars>>

\* mark_fork_read(&self, fork_id) is called through a shared reference to the
\* database, which a read guard of db_manager gives
MarkReadCall(r, f) ==
    /\ Arrives(r)
    /\ ReadLockReady
    /\ readers' = readers \cup {r}
    /\ handler' = [handler EXCEPT ![r] =
                      [IdleHandler EXCEPT !.pc = "mark_fork_read",
                                          !.op = "mark_fork_read",
                                          !.fork_id = f]]
    /\ UNCHANGED <<forks, writer, storeVars>>

\* mark_fork_read, get_fork: without a match Ok(()) is returned
MarkReadGet(r) ==
    /\ handler[r].pc = "mark_fork_read"
    /\ IF Matching(handler[r].fork_id) = {}
       THEN /\ handler' = [handler EXCEPT ![r] = Answered(@)]
            /\ readers' = readers \ {r}
       ELSE /\ handler' = [handler EXCEPT ![r].pc = "scanned",
                                          ![r].entity = Matching(handler[r].fork_id)]
            /\ UNCHANGED readers
    /\ UNCHANGED <<forks, writer, storeVars>>

\* updated = entity with "read" set to true
MarkedRead(entity) == [entity EXCEPT !.read = TRUE]

\* mark_fork_read, the write transaction: the entity get_fork returned is
\* written with read = true
MarkReadWrite(r) ==
    /\ handler[r].pc = "scanned"
    /\ handler[r].op = "mark_fork_read"
    /\ forks' = [forks EXCEPT ![handler[r].fork_id] =
                    {MarkedRead(e) : e \in Snapshot(r)}]
    /\ readers' = readers \ {r}
    /\ handler' = [handler EXCEPT ![r] = Answered(@)]
    /\ UNCHANGED <<writer, storeVars>>

\* POST /api/events reaches the handler ingest_events: the write guard is
\* taken, get_or_create returns the database, stored = 0 and errors = 0
IngestLock(r, batch) ==
    /\ Arrives(r)
    /\ WriteLockReady
    /\ writer' = {r}
    /\ handler' = [handler EXCEPT ![r] =
                      [IdleHandler EXCEPT !.pc = "ingest", !.op = "ingest_events",
                                          !.batch = batch, !.n = Len(batch)]]
    /\ UNCHANGED <<forks, readers, storeVars>>

\* the loop of ingest_events has an item to go to; batch holds the items the
\* iterator over req.events has not yielded
IngestAt(r) ==
    /\ handler[r].pc = "ingest"
    /\ handler[r].batch # <<>>
Item(r) == Head(handler[r].batch)

\* a loop that returns at the first item that is not stored
AbortAtError(h) == <<>>

\* the items left after an item that was not stored: the loop goes on
RestAfterError(h) == Tail(h.batch)

\* Ok(_) => stored += 1 (and the broadcast, which nothing here listens to)
AfterStored(h) == [h EXCEPT !.stored = @ + 1, !.batch = Tail(@)]
\* Err(e) => errors += 1, and the else branch of ClaudeEvent::parse
AfterError(h) == [h EXCEPT !.errors = @ + 1, !.batch = RestAfterError(h)]

\* ClaudeEvent::parse returns None for the item
IngestParseFail(r) ==
    /\ IngestAt(r)
    /\ ~Item(r).parses
    /\ handler' = [handler EXCEPT ![r] = AfterError(@)]
    /\ UNCHANGED <<forks, readers, writer, storeVars>>

\* the item parses and db.store_event returns Ok
IngestStoreOk(r) ==
    /\ IngestAt(r)
    /\ Item(r).parses
    /\ StoreEventOk(Item(r).event)
    /\ handler' = [handler EXCEPT ![r] = AfterStored(@)]
    /\ UNCHANGED <<forks, readers, writer>>

\* the item parses and db.store_event returns Err before the index update
IngestStoreFailEarly(r) ==
    /\ IngestAt(r)
    /\ Item(r).parses
    /\ StoreEventFailEarly(Item(r).event)
    /\ handler' = [handler EXCEPT ![r] = AfterError(@)]
    /\ UNCHANGED <<forks, readers, writer>>

\* the item parses and db.store_event returns Err after the index update
IngestStoreFailLate(r) ==
    /\ IngestAt(r)
    /\ Item(r).parses
    /\ StoreEventFailLate(Item(r).event)
    /\ handler' = [handler EXCEPT ![r] = AfterError(@)]
    /\ UNCHANGED <<forks, readers, writer>>

\* the loop is over: Json(IngestResponse { stored, errors }) is returned and
\* the guard dropped
IngestDone(r) ==
    /\ handler[r].pc = "ingest"
    /\ handler[r].batch = <<>>
    /\ writer' = writer \ {r}
    /\ handler' = [handler EXCEPT ![r].pc = "done"]
    /\ UNCHANGED <<forks, readers, storeVars>>

(***************************************************************************)
(*                     THE PARSER: ClaudeEvent::parse                      *)
(* A line is the JSON value it parses to, with the keys and the content    *)
(* blocks that parse looks at.  A text, thinking or tool_result block      *)
(* carries a text that is not empty after the noise is stripped.  The      *)
(* lines of a stream are parsed and stored one after the other.            *)
(***************************************************************************)
\* the strings under "type": two the parser knows and one it does not
TypeStrings == {"assistant", "user", "mystery"}

\* the blocks of message.content: tool_use blocks with and without "name"
Blocks ==
    {[type |-> "text", id |-> None, name |-> FALSE],
     [type |-> "thinking", id |-> None, name |-> FALSE],
     [type |-> "tool_result", id |-> "t1", name |-> FALSE],
     [type |-> "tool_use", id |-> "t1", name |-> TRUE],
     [type |-> "tool_use", id |-> "t1", name |-> FALSE]}

\* the JSON values of the model: "type" (None: absent), message.content,
\* whether message.usage is there, whether "result" is there
JsonValues ==
    [type : TypeStrings \cup {None},
     content : SeqsUpTo(Blocks, MaxBlocks),
     usage : BOOLEAN,
     result : BOOLEAN]

VARIABLES
    parse_pc,        \* "line" | "read" | "parsed" | "skipped" | "stored"
    line,            \* the text of the line read
    json,            \* the JSON value serde_json::from_str gave for the line
    parsed           \* what parse returned: the ClaudeEvent, or NoEvent for None

parseVars == <<parse_pc, line, json, parsed>>

NoLine == [type |-> None, content |-> <<>>, usage |-> FALSE, result |-> FALSE]
NoEvent == [set |-> FALSE]

\* the text of a line is a sequence of pieces: white space, the text of one
\* JSON value (serde_json writes and reads it), or other characters
Space == [kind |-> "space", value |-> NoLine]
Junk == [kind |-> "junk", value |-> NoLine]
JsonText(value) == [kind |-> "json", value |-> value]

\* the JSON values that come with something around them in the model
PaddedValues == {v \in JsonValues : v.content = <<>> /\ ~v.usage /\ ~v.result}

\* the lines of the model: every JSON value on a line of its own, and empty,
\* blank, padded and broken lines
Lines ==
    {<<JsonText(v)>> : v \in JsonValues}
    \cup {<<>>, <<Space>>, <<Space, Space>>, <<Junk>>, <<Space, Junk>>}
    \cup {<<Space, JsonText(v), Space>> : v \in PaddedValues}
    \cup {<<JsonText(v), Junk>> : v \in PaddedValues}
    \cup {<<JsonText(v), Space, JsonText(v)>> : v \in PaddedValues}

ParseIdle == parse_pc = "line" /\ line = <<>> /\ json = NoLine /\ parsed = NoEvent

\* a parse that takes the line as it is
Untrimmed(text) == text

\* str::trim: the white space at both ends is dropped
RECURSIVE TrimStart(_)
TrimStart(text) ==
    IF text # <<>> /\ Head(text).kind = "space" THEN TrimStart(Tail(text)) ELSE text
RECURSIVE TrimEnd(_)
TrimEnd(text) ==
    IF text # <<>> /\ text[Len(text)].kind = "space"
    THEN TrimEnd(SubSeq(text, 1, Len(text) - 1)) ELSE text
Trim(text) == TrimEnd(TrimStart(text))

\* serde_json::from_str: Ok(value) for the text of one JSON value, Err for
\* anything else (other characters, characters after the value)
FromStr(text) ==
    IF Len(text) = 1 /\ text[1].kind = "json"
    THEN [ok |-> TRUE, value |-> text[1].value]
    ELSE [ok |-> FALSE, value |-> NoLine]

\* the match on value.get("type"): None when the key is absent
EventTypeOf(type) ==
    CASE type = None -> None
      [] type = "assistant" -> "Assistant"
      [] type = "user" -> "User"
      [] OTHER -> "Unknown"

\* the blocks of message.content of the given types, in document order; the
\* extraction functions do not look at the type of the event
BlocksOf(value, types) == SelectSeq(value.content, LAMBDA b : b.type \in types)

\* extract_text_content: the texts of the text and tool_result blocks in
\* document order (joined with a newline), None without any
ExtractTextContent(value) ==
    LET texts == BlocksOf(value, {"text", "tool_result"})
    IN  IF texts = <<>> THEN None ELSE [i \in DOMAIN texts |-> texts[i].type]

\* extract_thinking: the texts of the thinking blocks, None without any
ExtractThinking(value) ==
    LET thinking_blocks == BlocksOf(value, {"thinking"})
    IN  IF thinking_blocks = <<>> THEN None
        ELSE [i \in DOMAIN thinking_blocks |-> thinking_blocks[i].type]

\* extract_tool_uses: the tool_use blocks that have an id and a name
ExtractToolUses(value) ==
    LET uses == SelectSeq(BlocksOf(value, {"tool_use"}), LAMBDA b : b.id # None /\ b.name)
    IN  [i \in DOMAIN uses |-> [id |-> uses[i].id, name |-> uses[i].name]]

\* extract_tool_results: the tool_use_id of the tool_result blocks that have one
ExtractToolResults(value) ==
    LET res == SelectSeq(BlocksOf(value, {"tool_result"}), LAMBDA b : b.id # None)
    IN  [i \in DOMAIN res |-> res[i].id]

\* ClaudeEvent::parse for a line that is a JSON value: Some(event)
ParseEvent(value) ==
    LET tool_uses == ExtractToolUses(value)
    IN  [set |-> TRUE,
         uuid |-> None,
         session_id |-> None,
         parent_tool_use_id |-> None,
         event_type |-> EventTypeOf(value.type),
         message |-> ExtractTextContent(value),
         thinking |-> ExtractThinking(value),
         tool_uses |-> tool_uses,
         tool_use_ids |-> [i \in DOMAIN tool_uses |-> tool_uses[i].id],
         tool_results |-> ExtractToolResults(value),
         usage |-> value.usage,
         result |-> value.result,
         raw |-> value]

\* ClaudeEvent::parse(line): None for a line that is empty once trimmed or
\* that is not JSON, Some(event) otherwise
ParseLine(text) ==
    LET trimmed == Trim(text)
        value == FromStr(trimmed)
    IN  IF trimmed = <<>> \/ ~value.ok THEN NoEvent ELSE ParseEvent(value.value)

\* a line of the stream is read
ReadLine(text) ==
    /\ parse_pc = "line"
    /\ next_entity_id <= MaxParsedLines
    /\ line' = text
    /\ parse_pc' = "read"
    /\ UNCHANGED <<json, parsed, storeVars>>

\* ClaudeEvent::parse(line) returns; the caller skips a line it returns None for
Parse ==
    /\ parse_pc = "read"
    /\ parsed' = ParseLine(line)
    /\ json' = FromStr(Trim(line)).value
    /\ parse_pc' = IF ParseLine(line).set THEN "parsed" ELSE "skipped"
    /\ UNCHANGED <<line, storeVars>>

\* store_event(&event, fork_id) returns Ok
StoreParsed ==
    /\ parse_pc = "parsed"
    /\ StoreEventOk(parsed)
    /\ parse_pc' = "stored"
    /\ UNCHANGED <<line, json, parsed>>

\* the loop goes to the next line: the event and the line are dropped
NextLine ==
    /\ parse_pc \in {"stored", "skipped"}
    /\ parse_pc' = "line"
    /\ line' = <<>>
    /\ json' = NoLine
    /\ parsed' = NoEvent
    /\ UNCHANGED storeVars

(***************************************************************************)
(*            THE CONTENT SUMMARY OF extract_tool_results                  *)
(* A string is a sequence of characters: "ascii" (one byte in UTF-8),      *)
(* "wide" (a character of several bytes, two here), "space", and "noise"   *)
(* for one <system-reminder>...</system-reminder> block.                   *)
(***************************************************************************)
Chars == {"ascii", "wide", "space", "noise"}
Strings == SeqsUpTo(Chars, MaxContent)

\* block.get("content"): a string, an array whose first item with a "text"
\* string has that text, an array without such an item, or anything else
Contents ==
    [form : {"string", "array"}, text : Strings]
    \cup [form : {"array_without_text", "other"}, text : {<<>>}]

VARIABLES
    sum_pc,          \* "block" | "summarized"
    block_content,   \* the content of the tool_result block at hand
    content_summary  \* ToolResult::content_summary computed for it

summaryVars == <<sum_pc, block_content, content_summary>>

\* Option<String> and the outcome of a panic
NoSummary == [some |-> FALSE, panic |-> FALSE, text |-> <<>>]
SomeSummary(text) == [some |-> TRUE, panic |-> FALSE, text |-> text]
Panic == [some |-> FALSE, panic |-> TRUE, text |-> <<>>]

SummaryIdle ==
    /\ sum_pc = "block"
    /\ block_content = [form |-> "other", text |-> <<>>]
    /\ content_summary = NoSummary

\* str::trim on a string
RECURSIVE TrimChars(_)
TrimChars(s) ==
    IF s = <<>> THEN s
    ELSE IF Head(s) = "space" THEN TrimChars(Tail(s))
    ELSE IF s[Len(s)] = "space" THEN TrimChars(SubSeq(s, 1, Len(s) - 1))
    ELSE s

\* strip_noise: the system-reminder blocks are removed, the rest is trimmed
StripNoise(s) == TrimChars(SelectSeq(s, LAMBDA ch : ch # "noise"))

\* the bytes of a character and String::len, the length in bytes
Width(ch) == IF ch = "wide" THEN 2 ELSE 1
RECURSIVE ByteLen(_)
ByteLen(s) == IF s = <<>> THEN 0 ELSE Width(Head(s)) + ByteLen(Tail(s))

\* the characters that end at byte n of s
EndsAt(s, n) == {k \in 0 .. Len(s) : ByteLen(SubSeq(s, 1, k)) = n}

\* format!("{}...", &cleaned[..SummaryCap]), for a string longer than
\* SummaryCap bytes: the slice panics when byte SummaryCap is inside a character
Truncated(cleaned) ==
    IF EndsAt(cleaned, SummaryCap) = {} THEN Panic
    ELSE SomeSummary(Append(SubSeq(cleaned, 1, CHOOSE k \in EndsAt(cleaned, SummaryCap) : TRUE),
                            "..."))

\* the match on block.get("content") in extract_tool_results
ContentSummary(content) ==
    LET cleaned == StripNoise(content.text)
    IN  CASE content.form = "string" ->
                IF ByteLen(cleaned) > SummaryCap THEN Truncated(cleaned)
                ELSE IF cleaned # <<>> THEN SomeSummary(cleaned)
                ELSE NoSummary
          [] content.form = "array" ->
                IF ByteLen(cleaned) > SummaryCap THEN Truncated(cleaned)
                ELSE SomeSummary(cleaned)
          [] OTHER -> NoSummary

\* extract_tool_results comes to a tool_result block with a tool_use_id and
\* computes the summary of its content
Summarize(content) ==
    /\ sum_pc = "block"
    /\ block_content' = content
    /\ content_summary' = ContentSummary(content)
    /\ sum_pc' = "summarized"

\* the loop goes to the next block (after a panic: another call)
NextBlock ==
    /\ sum_pc = "summarized"
    /\ sum_pc' = "block"
    /\ block_content' = [form |-> "other", text |-> <<>>]
    /\ content_summary' = NoSummary

(***************************************************************************)
(*                           THE SPECIFICATIONS                            *)
(***************************************************************************)
vars == <<storeVars, poolVars, batchVars, supVars, serverVars, queryVars, parseVars, streamVars, summaryVars>>

\* a store nothing is stored in
StoreIdle ==
    /\ entities = <<>>
    /\ edges = <<>>
    /\ next_entity_id = 1
    /\ uuid_index = [u \in Uuids |-> 0]
    /\ tool_use_index = [t \in ToolIds |-> 0]
    /\ edge_check = FALSE

\* a pool nothing is spawned on
PoolUnused == has_events = FALSE /\ max_concurrent = 1 /\ PoolIdle

\* the graph store alone
StoreOnly == UNCHANGED <<poolVars, batchVars, supVars, serverVars, queryVars, parseVars, streamVars, summaryVars>>

Init == StoreInit /\ PoolUnused /\ BatchIdle /\ SupInit /\ ServerInit /\ QueryIdle /\ ParseIdle /\ StreamIdle /\ SummaryIdle

Next ==
    \/ \E event \in EventInputs : StoreEventOk(event) /\ StoreOnly
    \/ \E event \in EventInputs : StoreEventFailEarly(event) /\ StoreOnly
    \/ \E event \in EventInputs : StoreEventFailLate(event) /\ StoreOnly

Spec == Init /\ [][Next]_vars

\* the graph store when every call of store_event succeeds
SuccessNext == \E event \in EventInputs : StoreEventOk(event) /\ StoreOnly

SuccessSpec == Init /\ [][SuccessNext]_vars

\* the graph store and a caller of its queries between the calls of store_event
QueryOnly == UNCHANGED <<poolVars, batchVars, supVars, serverVars, parseVars, streamVars, summaryVars>>

QuerySpecNext ==
    \/ \E event \in SessionEvents : StoreEventOk(event) /\ StoreOnly
    \/ \E event \in SessionEvents : StoreEventFailLate(event) /\ StoreOnly
    \/ \E uuid \in Uuids : QueryEventByUuid(uuid) /\ QueryOnly
    \/ \E session_id \in QuerySessions : QueryEventsForSession(session_id) /\ QueryOnly
    \/ \E entity_id \in 1 .. MaxEvents : QueryChildEvents(entity_id) /\ QueryOnly

QuerySpecInit == StoreIdle /\ PoolUnused /\ BatchIdle /\ SupInit /\ ServerInit /\ QueryIdle /\ ParseIdle /\ StreamIdle /\ SummaryIdle

QuerySpec == QuerySpecInit /\ [][QuerySpecNext]_vars

\* the graph store closed and opened again between calls of store_event
ReopenSpecInit == StoreIdle /\ PoolUnused /\ BatchIdle /\ SupInit /\ ServerInit /\ QueryIdle /\ ParseIdle /\ StreamIdle /\ SummaryIdle

ReopenSpecNext ==
    \/ \E event \in PlainEvents : StoreEventOk(event) /\ StoreOnly
    \/ \E event \in PlainEvents : StoreEventExists(event) /\ StoreOnly
    \/ Reopen /\ StoreOnly

ReopenSpec == ReopenSpecInit /\ [][ReopenSpecNext]_vars

\* the pool alone, its callers free to receive, wait or drop
PoolOnly == UNCHANGED <<storeVars, batchVars, supVars, serverVars, queryVars, parseVars, streamVars, summaryVars>>

PoolSpecInit == StoreIdle /\ PoolInit /\ BatchIdle /\ SupInit /\ ServerInit /\ QueryIdle /\ ParseIdle /\ StreamIdle /\ SummaryIdle

PoolSpecNext ==
    \/ \E o \in PoolInputs : Spawn(o) /\ PoolOnly
    \/ \E p \in ProcIds : Acquire(p) /\ PoolOnly
    \/ \E p \in ProcIds : StartAndSpawn(p) /\ PoolOnly
    \/ \E p \in ProcIds, s \in Streams : ReaderReadAndSend(p, s) /\ PoolOnly
    \/ \E p \in ProcIds, s \in Streams : ReaderSendEvent(p, s) /\ PoolOnly
    \/ \E p \in ProcIds, code \in ExitCodes : ChildExit(p, code) /\ PoolOnly
    \/ \E p \in ProcIds : JoinWaitSendExit(p) /\ PoolOnly
    \/ \E p \in ProcIds : Complete(p) /\ PoolOnly
    \/ \E p \in ProcIds : RecvOutput(p) /\ PoolOnly
    \/ \E p \in ProcIds : CallWait(p) /\ PoolOnly
    \/ \E p \in ProcIds : WaitReturns(p) /\ PoolOnly
    \/ \E p \in ProcIds : DropHandle(p) /\ PoolOnly
    \/ RecvEvent /\ PoolOnly
    \/ DropEvents /\ PoolOnly

PoolSpec == PoolSpecInit /\ [][PoolSpecNext]_vars

\* the runtime schedules every task that can run: a task, or a future that is
\* awaited, whose next step stays possible takes it.  Nothing makes a child
\* exit, a caller receive, wait or drop, or an observer receive.
TaskFairness(p) ==
    /\ WF_vars(Acquire(p) /\ PoolOnly)
    /\ WF_vars(StartAndSpawn(p) /\ PoolOnly)
    /\ \A s \in Streams : WF_vars(ReaderReadAndSend(p, s) /\ PoolOnly)
    /\ \A s \in Streams : WF_vars(ReaderSendEvent(p, s) /\ PoolOnly)
    /\ WF_vars(JoinWaitSendExit(p) /\ PoolOnly)
    /\ WF_vars(Complete(p) /\ PoolOnly)

PoolFairness ==
    \A p \in ProcIds :
        /\ TaskFairness(p)
        /\ WF_vars(WaitReturns(p) /\ PoolOnly)

PoolFairSpec == PoolSpecInit /\ [][PoolSpecNext]_vars /\ PoolFairness

\* the pool with consumers that keep the channels drained: a caller receives
\* from its handle until it has the Exit item and only then calls wait, or
\* drops the handle; the observer receives or drops
QueueInputs == {o \in PoolInputs : o.buffer_size = 1 /\ o.err_lines = 0}

WaitAfterExit(p) ==
    /\ task_pc[p] \in {"completed", "done"}
    /\ out_q[p] = <<>>
    /\ CallWait(p)

QueueSpecInit == PoolSpecInit /\ max_concurrent = 1

QueueSpecNext ==
    \/ \E o \in QueueInputs : Spawn(o) /\ PoolOnly
    \/ \E p \in ProcIds : Acquire(p) /\ PoolOnly
    \/ \E p \in ProcIds : StartAndSpawn(p) /\ PoolOnly
    \/ \E p \in ProcIds, s \in Streams : ReaderReadAndSend(p, s) /\ PoolOnly
    \/ \E p \in ProcIds, s \in Streams : ReaderSendEvent(p, s) /\ PoolOnly
    \/ \E p \in ProcIds, code \in ExitCodes : ChildExit(p, code) /\ PoolOnly
    \/ \E p \in ProcIds : JoinWaitSendExit(p) /\ PoolOnly
    \/ \E p \in ProcIds : Complete(p) /\ PoolOnly
    \/ \E p \in ProcIds : RecvOutput(p) /\ PoolOnly
    \/ \E p \in ProcIds : WaitAfterExit(p) /\ PoolOnly
    \/ \E p \in ProcIds : WaitReturns(p) /\ PoolOnly
    \/ \E p \in ProcIds : DropHandle(p) /\ PoolOnly
    \/ RecvEvent /\ PoolOnly
    \/ DropEvents /\ PoolOnly

\* the runtime polls every task that is woken: a task whose next step stays
\* possible takes it; the semaphore of tokio serves its waiters in the order
\* they came, so a task that waits for a permit gets one if permits come free
\* again and again.  Every running child exits, and the consumers receive what
\* is in their channels.
QueueFairness ==
    /\ \A p \in ProcIds :
        /\ SF_vars(Acquire(p) /\ PoolOnly)
        /\ WF_vars(StartAndSpawn(p) /\ PoolOnly)
        /\ \A s \in Streams : WF_vars(ReaderReadAndSend(p, s) /\ PoolOnly)
        /\ \A s \in Streams : WF_vars(ReaderSendEvent(p, s) /\ PoolOnly)
        /\ WF_vars(JoinWaitSendExit(p) /\ PoolOnly)
        /\ WF_vars(Complete(p) /\ PoolOnly)
        /\ WF_vars((\E code \in ExitCodes : ChildExit(p, code)) /\ PoolOnly)
        /\ WF_vars(RecvOutput(p) /\ PoolOnly)
    /\ WF_vars(RecvEvent /\ PoolOnly)

QueueFairSpec == QueueSpecInit /\ [][QueueSpecNext]_vars /\ QueueFairness

\* the pool without an event channel, its processes with or without a timeout
TimeoutSpecInit == PoolSpecInit /\ ~has_events

TimeoutSpecNext ==
    \/ \E o \in TimeoutInputs : Spawn(o) /\ PoolOnly
    \/ \E p \in ProcIds : Acquire(p) /\ PoolOnly
    \/ \E p \in ProcIds : StartAndSpawn(p) /\ PoolOnly
    \/ \E p \in ProcIds, s \in Streams : ReaderReadAndSend(p, s) /\ PoolOnly
    \/ \E p \in ProcIds : Elapse(p) /\ PoolOnly
    \/ \E p \in ProcIds, code \in ExitCodes : ChildExit(p, code) /\ PoolOnly
    \/ \E p \in ProcIds : JoinWaitSendExit(p) /\ PoolOnly
    \/ \E p \in ProcIds : Complete(p) /\ PoolOnly
    \/ \E p \in ProcIds : RecvOutput(p) /\ PoolOnly
    \/ \E p \in ProcIds : CallWait(p) /\ PoolOnly
    \/ \E p \in ProcIds : WaitReturns(p) /\ PoolOnly
    \/ \E p \in ProcIds : DropHandle(p) /\ PoolOnly

TimeoutSpec == TimeoutSpecInit /\ [][TimeoutSpecNext]_vars

\* one call of spawn_all on a fresh pool
BatchOnly == UNCHANGED <<storeVars, supVars, serverVars, queryVars, parseVars, streamVars, summaryVars>>
\* a step of a task of the pool while spawn_all is suspended
TaskOnly == PoolOnly /\ UNCHANGED batchVars

BatchSpecInit == PoolSpecInit

BatchSpecNext ==
    \/ \E n \in 1 .. MaxProcs : SpawnAll(n) /\ BatchOnly
    \/ \E o \in PoolInputs : BatchSpawn(o) /\ BatchOnly
    \/ BatchSpawned /\ BatchOnly
    \/ \E p \in ProcIds : BatchWait(p) /\ BatchOnly
    \/ \E p \in ProcIds : BatchCollect(p) /\ BatchOnly
    \/ \E p \in ProcIds : Acquire(p) /\ TaskOnly
    \/ \E p \in ProcIds : StartAndSpawn(p) /\ TaskOnly
    \/ \E p \in ProcIds, s \in Streams : ReaderReadAndSend(p, s) /\ TaskOnly
    \/ \E p \in ProcIds, s \in Streams : ReaderSendEvent(p, s) /\ TaskOnly
    \/ \E p \in ProcIds, code \in ExitCodes : ChildExit(p, code) /\ TaskOnly
    \/ \E p \in ProcIds : JoinWaitSendExit(p) /\ TaskOnly
    \/ \E p \in ProcIds : Complete(p) /\ TaskOnly
    \/ RecvEvent /\ TaskOnly
    \/ DropEvents /\ TaskOnly

BatchFairness ==
    /\ \A p \in ProcIds : TaskFairness(p)
    /\ \A o \in PoolInputs : WF_vars(BatchSpawn(o) /\ BatchOnly)
    /\ WF_vars(BatchSpawned /\ BatchOnly)
    /\ \A p \in ProcIds : WF_vars(BatchWait(p) /\ BatchOnly)
    /\ \A p \in ProcIds : WF_vars(BatchCollect(p) /\ BatchOnly)

BatchSpec == BatchSpecInit /\ [][BatchSpecNext]_vars /\ BatchFairness

\* one call of spawn_process
SupOnly == UNCHANGED <<storeVars, poolVars, batchVars, serverVars, queryVars, parseVars, streamVars, summaryVars>>

SupSpecInit == StoreIdle /\ PoolUnused /\ BatchIdle /\ SupInit /\ ServerInit /\ QueryIdle /\ ParseIdle /\ StreamIdle /\ SummaryIdle

SupSpecNext ==
    \/ \E o \in ProcessInputs : SpawnProcess(o) /\ SupOnly
    \/ \E s \in Streams : SupReaderSend(s) /\ SupOnly
    \/ CollectRecv /\ SupOnly
    \/ CollectEnd /\ SupOnly
    \/ SupElapse /\ SupOnly
    \/ TimeoutFires /\ SupOnly
    \/ \E code \in ExitCodes : SupChildExit(code) /\ SupOnly
    \/ SupWait /\ SupOnly

SupSpec == SupSpecInit /\ [][SupSpecNext]_vars

\* the server: requests arriving at its handlers, which run concurrently
ServerOnly == UNCHANGED <<poolVars, batchVars, supVars, queryVars, parseVars, streamVars, summaryVars>>

ServerSpecInit == StoreIdle /\ PoolUnused /\ BatchIdle /\ SupInit /\ ServerInit /\ QueryIdle /\ ParseIdle /\ StreamIdle /\ SummaryIdle

ServerSpecNext ==
    \/ \E r \in Reqs : \E f \in ForkIds : CreateForkLock(r, f) /\ ServerOnly
    \/ \E r \in Reqs : CreateForkDone(r) /\ ServerOnly
    \/ \E r \in Reqs : \E f \in ForkIds : \E st \in Statuses :
          UpdateForkLock(r, f, st) /\ ServerOnly
    \/ \E r \in Reqs : UpdateForkScan(r) /\ ServerOnly
    \/ \E r \in Reqs : UpdateForkWrite(r) /\ ServerOnly
    \/ \E r \in Reqs : \E batch \in IngestBatches : IngestLock(r, batch) /\ ServerOnly
    \/ \E r \in Reqs : IngestParseFail(r) /\ ServerOnly
    \/ \E r \in Reqs : IngestStoreOk(r) /\ ServerOnly
    \/ \E r \in Reqs : IngestStoreFailEarly(r) /\ ServerOnly
    \/ \E r \in Reqs : IngestStoreFailLate(r) /\ ServerOnly
    \/ \E r \in Reqs : IngestDone(r) /\ ServerOnly

ServerSpec == ServerSpecInit /\ [][ServerSpecNext]_vars

\* the lines of one process followed one by one: the process is run either by
\* one call of spawn_process or as the only process of a pool
LinesSpecInit ==
    /\ StoreIdle /\ BatchIdle /\ SupInit /\ ServerInit /\ QueryIdle /\ ParseIdle /\ StreamIdle /\ SummaryIdle
    /\ max_concurrent = 1
    /\ has_events \in BOOLEAN
    /\ PoolIdleWith(2 * MaxStreamLines)

LinesSpecNext ==
    \/ \E o \in LineInputs :
          sup_pc = "idle" /\ next_id = 0 /\ ~o.timeout /\ Spawn(o) /\ PoolOnly
    \/ \E p \in ProcIds : Acquire(p) /\ PoolOnly
    \/ \E p \in ProcIds : StartAndSpawn(p) /\ PoolOnly
    \/ \E p \in ProcIds : \E s \in Streams : ReaderReadAndSend(p, s) /\ PoolOnly
    \/ \E p \in ProcIds : \E s \in Streams : ReaderSendEvent(p, s) /\ PoolOnly
    \/ \E p \in ProcIds : \E code \in ExitCodes : ChildExit(p, code) /\ PoolOnly
    \/ \E p \in ProcIds : JoinWaitSendExit(p) /\ PoolOnly
    \/ \E p \in ProcIds : Complete(p) /\ PoolOnly
    \/ \E p \in ProcIds : RecvOutput(p) /\ PoolOnly
    \/ \E p \in ProcIds : CallWait(p) /\ PoolOnly
    \/ \E p \in ProcIds : WaitReturns(p) /\ PoolOnly
    \/ \E p \in ProcIds : DropHandle(p) /\ PoolOnly
    \/ RecvEvent /\ PoolOnly
    \/ DropEvents /\ PoolOnly
    \/ \E o \in LineInputs : next_id = 0 /\ SpawnProcess(o) /\ SupOnly
    \/ \E s \in Streams : SupReaderSend(s) /\ SupOnly
    \/ CollectRecv /\ SupOnly
    \/ CollectEnd /\ SupOnly
    \/ SupElapse /\ SupOnly
    \/ TimeoutFires /\ SupOnly
    \/ \E code \in ExitCodes : SupChildExit(code) /\ SupOnly
    \/ SupWait /\ SupOnly

LinesSpec == LinesSpecInit /\ [][LinesSpecNext]_vars

\* the Fork entities of one database: forks are created through the server and
\* updated by callers of update_fork_status and of mark_fork_read
RegistrySpecNext ==
    \/ \E r \in Reqs, f \in ForkIds : CreateForkLock(r, f) /\ ServerOnly
    \/ \E r \in Reqs : CreateForkDone(r) /\ ServerOnly
    \/ \E r \in Reqs, f \in ForkIds, st \in Statuses :
          UpdateForkLock(r, f, st) /\ ServerOnly
    \/ \E r \in Reqs : UpdateForkScan(r) /\ ServerOnly
    \/ \E r \in Reqs : UpdateForkWrite(r) /\ ServerOnly
    \/ \E r \in Reqs, f \in ForkIds : MarkReadCall(r, f) /\ ServerOnly
    \/ \E r \in Reqs : MarkReadGet(r) /\ ServerOnly
    \/ \E r \in Reqs : MarkReadWrite(r) /\ ServerOnly

RegistrySpec == ServerSpecInit /\ [][RegistrySpecNext]_vars

\* one database used through its functions: events are stored by a caller
\* that has the database to itself (store_event takes &mut self), forks are
\* created, updated and marked read
SessionIds == {"s1"}
DatabaseEvents ==
    {e \in EventInputs : /\ e.uuid # None
                         /\ e.tool_use_ids # <<>>
                         /\ e.tool_results = <<>>}

StoreEventCall(event) == WriteLockReady /\ StoreEventOk(event)

DatabaseSpecNext ==
    \/ \E event \in DatabaseEvents : StoreEventCall(event) /\ StoreOnly
    \/ \E r \in Reqs, f \in ForkIds : CreateForkLock(r, f) /\ ServerOnly
    \/ \E r \in Reqs : CreateForkDone(r) /\ ServerOnly
    \/ \E r \in Reqs, f \in ForkIds, st \in Statuses, sid \in SessionIds \cup {None} :
          UpdateForkCall(r, f, st, sid) /\ ServerOnly
    \/ \E r \in Reqs : UpdateForkScan(r) /\ ServerOnly
    \/ \E r \in Reqs : UpdateForkWrite(r) /\ ServerOnly
    \/ \E r \in Reqs, f \in ForkIds : MarkReadCall(r, f) /\ ServerOnly
    \/ \E r \in Reqs : MarkReadGet(r) /\ ServerOnly
    \/ \E r \in Reqs : MarkReadWrite(r) /\ ServerOnly

DatabaseSpec == ServerSpecInit /\ [][DatabaseSpecNext]_vars

\* one call of spawn_process_streaming and the caller of it
StreamOnly ==
    UNCHANGED <<storeVars, poolVars, batchVars, supVars, serverVars, queryVars, parseVars,
                summaryVars>>

StreamSpecInit ==
    /\ StoreIdle /\ PoolUnused /\ BatchIdle /\ SupInit /\ ServerInit /\ QueryIdle
    /\ ParseIdle /\ StreamIdle /\ SummaryIdle

StreamSpecNext ==
    \/ \E o \in StreamingInputs : SpawnProcessStreaming(o) /\ StreamOnly
    \/ \E s \in Streams : StreamReaderSend(s) /\ StreamOnly
    \/ \E s \in Streams : StreamReaderEnd(s) /\ StreamOnly
    \/ \E code \in ExitCodes : StreamChildExit(code) /\ StreamOnly
    \/ StreamWaitSendExit /\ StreamOnly
    \/ StreamRecv /\ StreamOnly
    \/ StreamDropReceiver /\ StreamOnly

StreamSpec == StreamSpecInit /\ [][StreamSpecNext]_vars

\* the contents of tool_result blocks summarized one by one
SummaryOnly ==
    UNCHANGED <<storeVars, poolVars, batchVars, supVars, serverVars, queryVars, parseVars,
                streamVars>>

SummarySpecInit ==
    /\ StoreIdle /\ PoolUnused /\ BatchIdle /\ SupInit /\ ServerInit /\ QueryIdle
    /\ ParseIdle /\ StreamIdle /\ SummaryIdle

SummarySpecNext ==
    \/ \E content \in Contents : Summarize(content) /\ SummaryOnly
    \/ NextBlock /\ SummaryOnly

SummarySpec == SummarySpecInit /\ [][SummarySpecNext]_vars

\* the lines of a stream parsed and stored one by one in a store opened empty
ParseOnly == UNCHANGED <<poolVars, batchVars, supVars, serverVars, queryVars, streamVars, summaryVars>>

ParseSpecInit ==
    /\ StoreIdle /\ PoolUnused /\ BatchIdle /\ SupInit /\ ServerInit /\ QueryIdle
    /\ ParseIdle /\ StreamIdle /\ SummaryIdle

ParseSpecNext ==
    \/ \E text \in Lines : ReadLine(text) /\ ParseOnly
    \/ Parse /\ ParseOnly
    \/ StoreParsed /\ ParseOnly
    \/ NextLine /\ ParseOnly

ParseSpec == ParseSpecInit /\ [][ParseSpecNext]_vars

(***************************************************************************)
(*                       CLAIMS ABOUT THE GRAPH STORE                      *)
(***************************************************************************)
Declares(id, x) == x \in Range(entities[id].tool_use_ids)

HasEdge(src, dst, type) ==
    \E i \in DOMAIN edges :
        edges[i] = [source |-> src, target |-> dst, type |-> type]

\* C2 (as claimed): for all stored events A, B, A stored before B, where A
\* declares invocation id X and B carries parent-link key X, a CHILD_OF edge
\* from B's entity to A's entity exists and get_child_events(A) contains B.
C2_LinkInvariant ==
    \A a \in DOMAIN entities : \A b \in DOMAIN entities :
        (/\ a < b
         /\ entities[b].parent_tool_use_id # None
         /\ Declares(a, entities[b].parent_tool_use_id))
        => (HasEdge(b, a, EDGE_CHILD_OF) /\ b \in GetChildEvents(a))

\* an event with parent-link key X arriving when no committed event declares X
\* and which does not declare X itself
ArrivesBeforeDeclarer(event) ==
    /\ event.parent_tool_use_id # None
    /\ event.parent_tool_use_id \notin Range(event.tool_use_ids)
    /\ \A a \in DOMAIN entities : ~Declares(a, event.parent_tool_use_id)

\* C3 (as claimed): an event B with parent-link key X stored before any event
\* declaring X is stored without error and without any CHILD_OF edge, and no
\* CHILD_OF edge from B to a declarer stored later ever exists.
C3_OutOfOrderGap ==
    /\ \A event \in EventInputs :
          (ArrivesBeforeDeclarer(event) /\ next_entity_id <= MaxEvents)
          => ENABLED StoreEventOk(event)
    /\ \A b \in DOMAIN entities :
          (/\ entities[b].parent_tool_use_id # None
           /\ \A a \in DOMAIN entities :
                 a <= b => ~Declares(a, entities[b].parent_tool_use_id))
          => \A i \in DOMAIN edges :
                 ~(edges[i].source = b /\ edges[i].type = EDGE_CHILD_OF)
    /\ \A a \in DOMAIN entities : \A b \in DOMAIN entities :
          b < a => ~HasEdge(b, a, EDGE_CHILD_OF)

\* what a caller can observe of the store through its queries
Observable ==
    <<entities, edges,
      [u \in Uuids |-> GetEventByUuid(u)],
      [id \in DOMAIN entities |-> GetChildEvents(id)]>>

\* C4 (as claimed): a store_event call that fails leaves nothing visible: the
\* observable state of the store is as before the call.
C4_StoreEventAtomic ==
    [][\A event \in EventInputs :
          (StoreEventFailEarly(event) \/ StoreEventFailLate(event))
          => Observable' = Observable]_vars

C14_FreshIds ==
    [][next_entity_id' = next_entity_id + 1
       => (/\ next_entity_id # 0
           /\ \A id \in DOMAIN entities : id < next_entity_id)]_vars

\* the edges a step has added
AddedEdges == SubSeq(edges', Len(edges) + 1, Len(edges'))

\* C18 (as claimed): a successful store_event creates, for each tool result
\* whose tool_use_id is in the invocation index when the call is made, one
\* RESPONDS_TO edge from the new entity to the entity the index names, and no
\* RESPONDS_TO edge for a tool result whose tool_use_id is not in the index.
C18_RespondsTo ==
    [][\A event \in EventInputs :
          StoreEventOk(event)
          => \A k \in DOMAIN event.tool_results :
                LET t == event.tool_results[k]
                    made == {i \in DOMAIN AddedEdges :
                                /\ AddedEdges[i].type = EDGE_RESPONDS_TO
                                /\ AddedEdges[i].source = next_entity_id}
                IN  IF tool_use_index[t] # 0
                    THEN \E i \in made : AddedEdges[i].target = tool_use_index[t]
                    ELSE made = {}]_vars

\* the stored events that carry unique id u
Carriers(u) == {id \in DOMAIN entities : entities[id].uuid = u}

\* C19: after successful store_event calls get_event_by_uuid(u) returns the
\* entity of the latest call whose event carried u, and None when no stored
\* event carried u; an event without unique id is stored and the id index has
\* no entry for it.
C19_LastWriterWins ==
    /\ \A u \in Uuids :
          IF Carriers(u) = {}
          THEN GetEventByUuid(u) = {}
          ELSE GetEventByUuid(u) =
                  {entities[CHOOSE id \in Carriers(u) : \A x \in Carriers(u) : x <= id]}
    /\ \A id \in DOMAIN entities :
          entities[id].uuid = None => \A u \in Uuids : uuid_index[u] # id

\* two stored events carry the same unique id, a later one carries none, and the
\* query returns the second
C19_Witness ==
    \E a \in DOMAIN entities : \E b \in DOMAIN entities : \E c \in DOMAIN entities :
        /\ a < b /\ b < c
        /\ entities[a].uuid # None
        /\ entities[a].uuid = entities[b].uuid
        /\ entities[c].uuid = None
        /\ GetEventByUuid(entities[a].uuid) = {entities[b]}

(***************************************************************************)
(*                      CLAIMS ABOUT THE PROCESS POOL                      *)
(***************************************************************************)
\* the task of p is between semaphore.acquire() and the drop of its permit
HoldsPermit(p) == task_pc[p] \in {"started", "join", "completed", "failed"}

\* C1: for a pool constructed with maximum concurrency N, in every reachable
\* state at most N pooled processes are between acquiring a concurrency slot and
\* releasing it; a child process only runs inside that window, so at most N
\* children run at once, and the permits held and available add up to N.
C1_ConcurrencyCeiling ==
    /\ Cardinality({p \in ProcIds : HoldsPermit(p)}) <= max_concurrent
    /\ \A p \in ProcIds : child[p] = "running" => HoldsPermit(p)
    /\ Cardinality({p \in ProcIds : child[p] = "running"}) <= max_concurrent
    /\ permits + Cardinality({p \in ProcIds : HoldsPermit(p)}) = max_concurrent

\* C1 happens: a child runs in the last slot while another spawned process queues
C1_Witness ==
    \E p \in ProcIds : \E q \in ProcIds :
        /\ p # q
        /\ child[p] = "running"
        /\ task_pc[q] = "acquire"
        /\ permits = 0

\* the child of p is over: it has exited, or it could not be spawned
ChildOver(p) ==
    \/ child[p] = "exited"
    \/ ~proc[p].program_ok /\ task_pc[p] \in {"failed", "completed", "done"}

\* C5 (as claimed): for every process spawned through the pool whose child
\* exits or fails to spawn, PooledProcess::wait eventually returns a result,
\* whatever the consumers of the output receiver and of the event receiver do
\* (nothing included) and however many lines there are for the channel capacity.
C5_WaitResolves ==
    \A p \in ProcIds :
        (handle[p] = "waiting" /\ ChildOver(p)) ~> (handle[p] = "returned")

\* every child of the batch is over
BatchOver ==
    /\ batch_pc \in {"spawn", "wait"}
    /\ next_id = batch_len
    /\ \A p \in ProcIds : p < batch_len => ChildOver(p)

\* C6 (as claimed): spawn_all eventually returns once every child of the batch
\* has exited or failed to spawn, and the mapping returned has exactly one entry
\* per submitted specification, under distinct ids, each the result of its
\* process (a failed result where the spawn failed).
C6_SpawnAllReturns ==
    /\ BatchOver ~> (batch_pc = "returned")
    /\ [](batch_pc = "returned" =>
            /\ DOMAIN results = {p \in ProcIds : p < batch_len}
            /\ \A p \in DOMAIN results :
                  /\ results[p] = result_slot[p]
                  /\ ~proc[p].program_ok => ~Success(results[p]))

\* C7: when the program cannot be spawned, spawn still returns a handle, the
\* result the handle resolves with is the synthetic one (success() false,
\* timed_out false, stdout empty, the error text in stderr), and a pool with an
\* event channel whose receiver is alive has emitted Completed{success: false}.
C7_SpawnFailure ==
    \A p \in ProcIds :
        (p < next_id /\ ~proc[p].program_ok) =>
            /\ handle[p] # "none"
            /\ task_pc[p] \notin {"join", "completed"}
            /\ result_slot[p].set =>
                  /\ ~Success(result_slot[p])
                  /\ ~result_slot[p].timed_out
                  /\ result_slot[p].stdout = <<>>
                  /\ result_slot[p].stderr = <<SpawnErrorText>>
                  /\ EventDelivered =>
                        event_log[p][Len(event_log[p])] = Completed(p, FALSE)

\* C7 happens: wait has returned the result of a program that could not be
\* spawned, and the event channel carried its events
C7_Witness ==
    \E p \in ProcIds :
        /\ ~proc[p].program_ok
        /\ handle[p] = "returned"
        /\ result_slot[p].set
        /\ EventDelivered
        /\ Len(event_log[p]) = 2

\* the number of events of a kind in a log
CountEv(log, kind) == Cardinality({i \in DOMAIN log : log[i].ev = kind})

\* C8: on the pool-wide channel, for every id, there is one Started and one
\* Completed event; Started comes before every Output of the id, every Output
\* before Completed, and Completed is there when the completion future resolves.
C8_LifecycleOrder ==
    \A p \in ProcIds :
        LET log == event_log[p] IN
        /\ CountEv(log, "Started") <= 1
        /\ CountEv(log, "Completed") <= 1
        /\ \A i \in DOMAIN log :
              /\ log[i].id = p
              /\ log[i].ev = "Started" <=> i = 1
              /\ log[i].ev = "Completed" => i = Len(log)
        /\ (EventDelivered /\ (HoldsPermit(p) \/ task_pc[p] = "done")
              /\ task_pc[p] # "started")
              => CountEv(log, "Started") = 1
        /\ (EventDelivered /\ result_slot[p].set)
              => (CountEv(log, "Completed") = 1
                  /\ CountEv(log, "Output")
                        = nread[p]["Stdout"] + nread[p]["Stderr"])

\* C8 happens: the result of a process is there and its events were Started,
\* an Output and Completed
C8_Witness ==
    \E p \in ProcIds :
        /\ result_slot[p].set
        /\ EventDelivered
        /\ Len(event_log[p]) = 3
        /\ event_log[p][2].ev = "Output"

\* C10 (as claimed): a process spawned through the pool with a configured
\* timeout that runs longer than the timeout is killed and its result reports
\* timed_out = true; the results of its siblings are their own.
C10_PoolTimeout ==
    \A p \in ProcIds :
        (result_slot[p].set /\ proc[p].timeout /\ elapsed[p]) =>
            /\ result_slot[p].timed_out
            /\ ~Success(result_slot[p])

(***************************************************************************)
(*                       CLAIMS ABOUT THE SUPERVISOR                       *)
(***************************************************************************)
\* C9 (as claimed): for every specification with a configured timeout, whatever
\* its capture flags, whose process is still running when the timeout has
\* passed, spawn_process kills the process and returns a result with
\* timed_out = true and success() = false.
C9_TimeoutEnforced ==
    (sup_pc = "returned" /\ sup_options.timeout /\ sup_elapsed) =>
        /\ sup_result.timed_out
        /\ ~Success(sup_result)
        /\ sup_result.status = KilledStatus

(***************************************************************************)
(*                         CLAIMS ABOUT THE SERVER                         *)
(***************************************************************************)
\* C11 (as claimed): the status of a fork changes only from running to
\* completed or failed; once it is completed or failed no update changes it.
C11_ForkStatusFinal ==
    [][\A f \in ForkIds : \A e \in forks[f] : \A e2 \in forks'[f] :
          e2.status # e.status
          => (e.status = "running" /\ Terminal(e2.status))]_vars

\* a handler that has called a writing operation of the store, not yet returned
InWrite(r) == handler[r].pc \in {"create_fork", "update_fork", "scanned", "ingest"}

\* C12 (as claimed): a handler inside store_event, create_fork or
\* update_fork_status holds the write guard of the lock, and no two handlers
\* are inside such an operation at the same time.
C12_SingleWriter ==
    /\ \A r \in Reqs : InWrite(r) => writer = {r}
    /\ \A r1 \in Reqs : \A r2 \in Reqs : (InWrite(r1) /\ InWrite(r2)) => r1 = r2

RECURSIVE SumStored(_)
\* the stored counters of the handlers 1 .. n, added up
SumStored(n) == IF n = 0 THEN 0 ELSE handler[n].stored + SumStored(n - 1)

RECURSIVE LinesIn(_, _)
\* the line numbers of the items of stream s in a channel, oldest first
LinesIn(q, s) ==
    IF q = <<>> THEN <<>>
    ELSE (IF Head(q).kind = s THEN <<Head(q).line>> ELSE <<>>) \o LinesIn(Tail(q), s)

\* the line numbers of a list of captured lines
Numbers(lines) == [i \in DOMAIN lines |-> lines[i][2]]

\* how often line k is in a list of line numbers
Times(nums, k) == Cardinality({i \in DOMAIN nums : nums[i] = k})

\* the lines 1 .. n are each once in a list of line numbers, and nothing else is
EachOnce(nums, n) == Len(nums) = n /\ \A k \in 1 .. n : Times(nums, k) = 1

\* the lines of stream s in a result
ResultLines(result, s) == IF s = "Stdout" THEN result.stdout ELSE result.stderr

\* the lines of stream s that collect_future has pushed
Pushed(s) == IF s = "Stdout" THEN stdout_lines ELSE stderr_lines

Increasing(nums) ==
    \A i \in DOMAIN nums : \A j \in DOMAIN nums : i < j => nums[i] < nums[j]

\* C16: the lines of one stream keep the order the child wrote them in: on the
\* output channel of a process of the pool, in the channel and the lists of
\* spawn_process, and in the results (between a stdout line and a stderr line
\* no order is claimed).
C16_StreamOrder ==
    \A s \in Streams :
        /\ \A p \in ProcIds :
              /\ Increasing(LinesIn(out_q[p], s))
              /\ Increasing(Numbers(ResultLines(result_slot[p], s)))
        /\ Increasing(LinesIn(sup_rx, s))
        /\ Increasing(Numbers(Pushed(s)) \o LinesIn(sup_rx, s))
        /\ Increasing(Numbers(ResultLines(sup_result, s)))

\* the output channel of a process holds its two stdout lines, and a stderr
\* line has gone through it before them
C16_Witness ==
    \E p \in ProcIds :
        /\ ~OutputClosed(p)
        /\ LinesIn(out_q[p], "Stdout") = <<1, 2>>
        /\ nread[p]["Stderr"] = 1

\* the captured lines the Output events of id p carry for stream s, oldest first
OutputEvents(p, s) ==
    LET idx == {i \in DOMAIN event_log[p] :
                   event_log[p][i].ev = "Output" /\ event_log[p][i].output.kind = s}
        ord == Ascending(idx)
    IN  [i \in DOMAIN ord |-> <<s, event_log[p][ord[i]].output.line>>]

\* the Output events of id p are the lines of its final result, stream by stream
Mirrored(p) ==
    \A s \in Streams : OutputEvents(p, s) = ResultLines(result_slot[p], s)

Added == DOMAIN entities' \ DOMAIN entities

QueryStep ==
    \/ \E uuid \in Uuids : QueryEventByUuid(uuid)
    \/ \E session_id \in QuerySessions : QueryEventsForSession(session_id)
    \/ \E entity_id \in 1 .. MaxEvents : QueryChildEvents(entity_id)

C22_QueriesReadOnly ==
    [][QueryStep => UNCHANGED <<entities, edges, uuid_index, tool_use_index>>]_vars

\* a lookup by uuid has returned nothing for a uuid that is in the index, the
\* entry of a call of store_event that failed, and the entry is still there
C22_Witness ==
    /\ answer = [query |-> "get_event_by_uuid", result |-> {}]
    /\ \E uuid \in Uuids : uuid_index[uuid] # 0 /\ uuid_index[uuid] \notin DOMAIN entities


(***************************************************************************)
(* C23: an update of a Fork entity is a read followed by a write of the    *)
(* whole entity.  The entity an update_fork_status or a mark_fork_read     *)
(* writes is built from the entity that call read, whatever is stored when *)
(* it writes: of two interleaved updates the one that commits last decides *)
(* every field, and the change of the other is lost.                       *)
(***************************************************************************)
Writes(r) == handler[r].pc = "scanned" /\ handler'[r].pc = "done"

C23_LastWriteWins ==
    [][\A r \in Reqs : Writes(r) =>
          forks'[handler[r].fork_id] =
              IF handler[r].op = "update_fork"
              THEN {WithSession(UpdatedEntity(e, handler[r].status),
                                handler[r].session_id) : e \in handler[r].entity}
              ELSE {MarkedRead(e) : e \in handler[r].entity}]_vars

\* the fork was created first, then marked read and updated by two calls that
\* have both returned: the stored entity is not marked read
C23_Witness ==
    /\ handler[1] = Answered([op |-> "create_fork"])
    /\ handler[2] = Answered([op |-> "mark_fork_read"])
    /\ handler[3] = Answered([op |-> "update_fork"])
    /\ \E f \in ForkIds : \E e \in forks[f] : ~e.read /\ e.status = "completed"


(***************************************************************************)
(* C24: in every reachable state every Fork entity whose status is         *)
(* completed or failed carries a completion timestamp, and a Fork entity   *)
(* that create_fork has just created has the status running, read = false  *)
(* and a creation timestamp.                                               *)
(***************************************************************************)
C24_ForkTimestamps ==
    /\ [](\A f \in ForkIds : \A e \in forks[f] :
            e.status \in {"completed", "failed"} => e.completed_at)
    /\ [][\A f \in ForkIds : forks[f] = {} /\ forks'[f] # {} =>
            \A e \in forks'[f] : e.status = "running" /\ ~e.read /\ e.created_at]_vars

\* a fork that failed, written after it was marked read
C24_Witness ==
    \E f \in ForkIds : \E e \in forks[f] :
        e.status = "failed" /\ e.read /\ e.completed_at /\ e.created_at


(***************************************************************************)
(* C25: ProcessResult::success() is true exactly when the exit status is   *)
(* the one of a process that exited with code 0 and timed_out is false: a  *)
(* zero exit with timed_out = true is not a success, and a non-zero exit   *)
(* or a kill by a signal is never one.  Stated for every status and flag   *)
(* of the model and for the result spawn_process has returned.             *)
(***************************************************************************)
ResultStatuses == {ExitedStatus(code) : code \in ExitCodes} \cup {KilledStatus, DefaultExitStatus}

ZeroExit(st) == st = ExitedStatus(0)

SuccessIff(result) == Success(result) <=> (ZeroExit(result.status) /\ ~result.timed_out)

C25_SuccessIff ==
    /\ \A st \in ResultStatuses : \A t \in BOOLEAN :
           SuccessIff(ProcessResult(st, <<>>, <<>>, t))
    /\ sup_pc = "returned" =>
           /\ sup_result.status \in ResultStatuses
           /\ SuccessIff(sup_result)

\* spawn_process has returned the result of a child killed at the timeout
C25_Witness ==
    /\ sup_pc = "returned"
    /\ sup_result.status = KilledStatus
    /\ sup_result.timed_out
    /\ ~Success(sup_result)


(***************************************************************************)
(* C26: no cross-process cancellation.  The step in which a pooled process *)
(* ends (its child exits, with any code; its program cannot be spawned;    *)
(* its task finishes and frees its slot) leaves the task, the child, the   *)
(* readers, the channel, the handle and the result of every other process  *)
(* as they were; and the result a process resolves its completion with is  *)
(* its own: the status its own child exited with and the lines its own     *)
(* readers read, or the synthetic result of its own spawn error.           *)
(***************************************************************************)
PerProcess(q) ==
    <<proc[q], task_pc[q], child[q], status[q], elapsed[q], reader[q], nread[q],
      out_q[q], handle[q], result_slot[q]>>

Ends(p) ==
    \/ child[p] = "running" /\ child'[p] = "exited"
    \/ task_pc[p] = "started" /\ task_pc'[p] = "failed"
    \/ task_pc[p] \in {"completed", "failed"} /\ task_pc'[p] = "done"

OwnResult(q) ==
    IF proc[q].program_ok
    THEN /\ child[q] = "exited"
         /\ status[q] \in {ExitedStatus(code) : code \in ExitCodes}
         /\ \A s \in Streams : reader[q][s] # "none" => nread[q][s] = LinesWritten(q, s)
         /\ result_slot[q] = InternalResult(q)
    ELSE result_slot[q] = SyntheticResult

C26_NoCrossCancellation ==
    /\ [][\A p \in ProcIds : \A q \in ProcIds \ {p} :
            Ends(p) => PerProcess(q)' = PerProcess(q)]_vars
    /\ [](\A q \in ProcIds : result_slot[q].set => OwnResult(q))

\* process 0 could not be spawned and its task is over; process 1, started
\* after it, has resolved with the zero exit status of its own child
C26_Witness ==
    /\ next_id = 2
    /\ ~proc[0].program_ok /\ task_pc[0] = "done"
    /\ result_slot[1].set /\ Success(result_slot[1])


(***************************************************************************)
(* C27: queued spawns make progress.  A task gives its permit back on      *)
(* every path on which it ends (zero exit, non-zero exit, spawn error):    *)
(* with children that exit and consumers that drain their channels (the    *)
(* fairness of the specification), every task that waits for a permit      *)
(* eventually gets one and starts; and whenever all spawned processes have *)
(* finished, available_permits() is N.                                     *)
(***************************************************************************)
AllFinished == next_id > 0 /\ \A p \in ProcIds : p < next_id => task_pc[p] = "done"

C27_QueuedSpawnsProgress ==
    /\ \A q \in ProcIds : (task_pc[q] = "acquire") ~> (task_pc[q] # "acquire")
    /\ [](AllFinished => permits = max_concurrent)

\* with one slot, the second process runs its child after the first one, whose
\* program could not be spawned, has ended
C27_Witness ==
    /\ max_concurrent = 1
    /\ ~proc[0].program_ok /\ task_pc[0] = "done"
    /\ child[1] = "running"


(***************************************************************************)
(* C28: ProcessPool::spawn returns its handle without waiting for a slot.  *)
(* In every state, also with no permit free, a call of spawn can return;   *)
(* when it returns the caller holds the handle, no permit has been taken   *)
(* and the spawned task is the one that waits for a permit.                *)
(***************************************************************************)
CanSpawn(o) ==
    next_id < MaxProcs /\ WellFormed(o) /\ o.out_lines + o.err_lines <= lines_left

UnknownType(event) == event.event_type \in {"Unknown", None}

\* C29 (as claimed): for every event parse returns whose type tag is Unknown,
\* the message text, the thinking text, the tool invocations, the tool outcomes,
\* the usage and the result are absent or empty, and raw is the payload of the
\* line, unchanged.
C29_UnknownCarriesNothing ==
    (parsed.set /\ UnknownType(parsed)) =>
        /\ parsed.message = None
        /\ parsed.thinking = None
        /\ parsed.tool_uses = <<>>
        /\ parsed.tool_use_ids = <<>>
        /\ parsed.tool_results = <<>>
        /\ ~parsed.usage
        /\ ~parsed.result
        /\ parsed.raw = json

\* the invocation ids that resolve to the entity in the index
ResolveTo(entity_id) == {t \in ToolIds : tool_use_index[t] = entity_id}

\* C30 (as claimed): once store_event has stored an event the parser produced,
\* the number of tool invocations the event declares equals the number of
\* distinct invocation ids that resolve to its entity in the invocation index.
C30_LosslessCount ==
    parse_pc = "stored" =>
        Len(parsed.tool_uses) = Cardinality(ResolveTo(next_entity_id - 1))


\* the pieces of a line that are not white space
Solid(text) == {i \in DOMAIN text : text[i].kind # "space"}

\* the line is the text of one JSON value with white space around it at most
OneJsonValue(text) ==
    /\ Cardinality(Solid(text)) = 1
    /\ \A i \in Solid(text) : text[i].kind = "json"

C31_SummaryTruncation ==
    (sum_pc = "summarized" /\ block_content.form = "string") =>
        LET cleaned == StripNoise(block_content.text)
        IN  /\ ~content_summary.panic
            /\ Len(cleaned) <= SummaryCap => content_summary.text = cleaned
            /\ Len(cleaned) > SummaryCap
               => content_summary.text = Append(SubSeq(cleaned, 1, SummaryCap), "...")

(***************************************************************************)
(*                   FURTHER CLAIMS ABOUT THE GRAPH STORE                  *)
(***************************************************************************)
\* C33 (as claimed): every CHILD_OF and RESPONDS_TO edge points from an entity
\* to a different entity stored earlier (target id < source id), so no event is
\* linked to itself and the edge graph has no cycle.
C33_EdgesPointBack ==
    \A i \in DOMAIN edges :
        /\ edges[i].type \in {EDGE_CHILD_OF, EDGE_RESPONDS_TO}
        /\ edges[i].target \in DOMAIN entities
        /\ edges[i].target < edges[i].source

\* C34 (as claimed): every entry of the id index and of the invocation index
\* names a committed Event entity that carries that unique id (declares that
\* invocation id), and a store_event call that fails leaves both indexes as
\* they were.
C34_IndexConsistency ==
    /\ [](/\ \A u \in Uuids :
                uuid_index[u] # 0
                => (/\ uuid_index[u] \in DOMAIN entities
                    /\ entities[uuid_index[u]].uuid = u)
          /\ \A t \in ToolIds :
                tool_use_index[t] # 0
                => (/\ tool_use_index[t] \in DOMAIN entities
                    /\ Declares(tool_use_index[t], t)))
    /\ [][\A event \in EventInputs :
             (StoreEventFailEarly(event) \/ StoreEventFailLate(event))
             => (uuid_index' = uuid_index /\ tool_use_index' = tool_use_index)]_vars


\* the targets of the edges of one type that leave entity b
Targets(b, type) ==
    {edges[i].target : i \in {j \in DOMAIN edges :
                                 edges[j].source = b /\ edges[j].type = type}}

\* a2 is the last entity stored before b that declares x, and an earlier
\* entity declares x too
LastOfTwoDeclarers(a2, b, x) ==
    /\ a2 < b
    /\ Declares(a2, x)
    /\ \E a1 \in DOMAIN entities : a1 < a2 /\ Declares(a1, x)
    /\ \A a \in DOMAIN entities : (a2 < a /\ a < b) => ~Declares(a, x)

\* C37 (as claimed): when two stored events A1 and then A2 declare invocation
\* id X, an event stored afterwards with parent-link key X (or with a tool
\* outcome referencing X) is linked to A2's entity only, and the edges created
\* before stay as they were.
C37_LastDeclarerWins ==
    /\ [](\A a2 \in DOMAIN entities : \A b \in DOMAIN entities : \A x \in ToolIds :
             LastOfTwoDeclarers(a2, b, x)
             => (/\ entities[b].parent_tool_use_id = x
                    => Targets(b, EDGE_CHILD_OF) = {a2}
                 /\ x \in Range(entities[b].tool_results)
                    => Targets(b, EDGE_RESPONDS_TO) = {a2}))
    /\ [][SubSeq(edges', 1, Len(edges)) = edges]_vars


(***************************************************************************)
(*                    CLAIMS ABOUT THE FORK FUNCTIONS                      *)
(***************************************************************************)
\* the properties of a Fork entity update_fork_status has no business with
Kept(entity) ==
    [id |-> entity.id, label |-> entity.label, fork_id |-> entity.fork_id,
     read |-> entity.read, created_at |-> entity.created_at,
     parent_session_id |-> entity.parent_session_id,
     fork_name |-> entity.fork_name]

\* the write of update_fork_status by handler r, seen against the Fork
\* entities before: nothing but status, session_id (when given) and
\* completed_at of the fork differs, and the rest of the store is as it was
WriteKeeps(r, before) ==
    LET f == handler[r].fork_id
    IN  /\ {Kept(e) : e \in forks'[f]} = {Kept(e) : e \in before}
        /\ handler[r].session_id = None
           => {e.session_id : e \in forks'[f]} = {e.session_id : e \in before}
        /\ \A g \in ForkIds \ {f} : forks'[g] = forks[g]
        /\ UNCHANGED storeVars

CalledWithoutMatch(r) ==
    /\ handler[r].pc \in {"update_fork", "mark_fork_read"}
    /\ forks[handler[r].fork_id] = {}

\* C39: update_fork_status and mark_fork_read called with a fork id that no
\* Fork entity has return Ok(()) and leave the store as it was: no entity is
\* created or modified, and nothing is written.
C39_NoMatchNoChange ==
    [][\A r \in Reqs :
          (CalledWithoutMatch(r) /\ handler'[r] # handler[r])
          => (/\ handler'[r] = Answered(handler[r])
              /\ forks' = forks
              /\ UNCHANGED storeVars)]_vars

\* an event is stored, and both functions have returned for a fork id that no
\* Fork entity has: there is still no Fork entity
C39_Witness ==
    /\ entities # <<>>
    /\ DOMAIN entities = 1 .. (next_entity_id - 1)
    /\ handler[1] = Answered([op |-> "update_fork"])
    /\ handler[2] = Answered([op |-> "mark_fork_read"])
    /\ \A f \in ForkIds : forks[f] = {}


(***************************************************************************)
(*                FURTHER CLAIMS ABOUT THE PROCESS POOL                    *)
(***************************************************************************)
\* the task of p has left run_process_internal
Left(p) == task_pc[p] \in {"completed", "failed", "done"}

\* the places of the Exit items in the output channel of p
Exits(p) == {i \in DOMAIN out_q[p] : out_q[p][i].kind = "Exit"}

Delivered == str_seen \o str_rx

\* C35 (as claimed): the Exit item is the last item delivered on the channel
\* of spawn_process_streaming: when the caller receives Exit, every line the
\* child wrote on a captured stream has been received, and no item follows.
C35_ExitDeliveredLast ==
    \A i \in DOMAIN Delivered :
        Delivered[i].kind = "Exit"
        => (/\ i = Len(Delivered)
            /\ \A s \in Streams :
                  Captured(str_options, s)
                  => Len(LinesIn(SubSeq(Delivered, 1, i), s)) = StreamLines(s))

====
